---- MODULE Spec2Model ----
(***************************************************************************)
(* Model of the claude-code-gateway core: the tool restriction resolver,   *)
(* the concurrency admission pools and the withConcurrencyLimit wrapper.   *)
(*                                                                         *)
(* Specifications:                                                         *)
(*   SpecTools  the resolver, the argument builders and one route handler  *)
(*              applied to every bounded combination of tool lists         *)
(*   SpecPool   direct calls of acquireSlot / releaseSlot / resetState     *)
(*   Spec       concurrent requests through withConcurrencyLimit           *)
(*   LiveSpec   Spec with the fairness of response termination             *)
(***************************************************************************)
EXTENDS Integers, Sequences, FiniteSets, TLC

\* ------------------------------------------------------------------ bounds
MaxLen == 2
MaxLimit == 2
MaxCap == 1
MaxEvents == 4
MaxPieces == 3
NReq == 2

\* ------------------------------------------------------------- value types
Tools == {"Read", "Write", "Glob"}

RequestType == {"streaming", "nonStreaming"}

Endpoints == {"/generate-text", "/generate-object", "/stream", "/stream-object"}

\* An optional string[]: undefined, or a list (possibly empty).
Undefined == [defined |-> FALSE, list |-> <<>>]

Some(l) == [defined |-> TRUE, list |-> l]

ToolLists == UNION {[1..n -> Tools] : n \in 0..MaxLen}

OptToolLists == {Undefined} \cup {Some(l) : l \in ToolLists}

Requests == 1..NReq

VARIABLES
    \* resolver / argument builder / route handler (SpecTools)
    options,            \* ResolveToolsOptions handed to resolveAllowedTools
    endpoint,           \* the endpoint the inputs were posted to ("" = none)
    resolved,           \* ResolvedTools returned by resolveAllowedTools
    args,               \* argument list built for the subprocess
    response,           \* [status, code, spawned] of the route handler
    tpc,                \* position in the tool pipeline
    \* admission pools (SpecPool, Spec)
    config,             \* ConcurrencyConfig
    streamingCount,
    nonStreamingCount,
    lastCall,           \* the last direct pool call: [fn, type, ret, before]
    \* requests through withConcurrencyLimit (Spec)
    pc,                 \* per request: position of wrapper and handler
    reqType,            \* per request: the pool of its endpoint
    released,           \* per request: the wrapper's `released` flag
    events,             \* per request: response events emitted so far
    releaseCalls,       \* per request: times releaseSlot ran on its behalf
    acquired,           \* per request: increments of a pool on its behalf
    spawned,            \* per request: a subprocess was spawned
    status,             \* per request: HTTP status the wrapper or handler set (0 = none)
    listeners,          \* per request: response events the wrapper listens to
    limitReply,         \* per request: Retry-After header and error code of the wrapper's answer
    \* direct pool calls in sequence (SpecCalls)
    history,            \* the calls made so far: <<[fn, type, ret], ...>>
    \* SDK: createSSEParser (SpecSSE)
    stream,             \* the bytes of the response body
    pos,                \* bytes handed to transform so far
    pending,            \* bytes the TextDecoder holds back (stream: true)
    buffer,             \* the parser's `buffer`
    enqueued,           \* the records enqueued so far: <<[event, data], ...>>
    cutKinds,           \* what the chunk boundaries so far fell into
    sseDone,            \* flush has run
    \* SDK: streamText (SpecText)
    received,           \* the SSE events handed to the transform so far
    ended,              \* the transform's flush has run
    sessionIdReceived,
    usageReceived,
    accumulatedText,
    sessionIdPromise,   \* [state, value, code]
    usagePromise,
    textPromise,
    textChunks,         \* the chunks enqueued on textStream
    streamErrored,      \* controller.error was called
    bodyFailed,         \* response.body errored before its end
    \* synchronous endpoints and the argument builders (SpecSync, SpecExtract, SpecArgs)
    cliOutcome,         \* how the subprocess ended: [timedOut, exitCode, stdout]
    syncReply,          \* [status, body] written by a synchronous endpoint
    posted,             \* the request body handed to an argument builder
    \* configuration loading (SpecConfig)
    environment,        \* one tool-list environment variable: [name, value, made]
    configured          \* the list gatewayConfig holds for it: [loaded, tools]

toolVars == <<options, endpoint, resolved, args, response, tpc>>

poolVars == <<config, streamingCount, nonStreamingCount>>

reqVars ==
    <<pc, reqType, released, events, releaseCalls, acquired, spawned, status,
      listeners, limitReply>>

sseVars == <<stream, pos, pending, buffer, enqueued, cutKinds, sseDone>>

textVars ==
    <<received, ended, sessionIdReceived, usageReceived, accumulatedText,
      sessionIdPromise, usagePromise, textPromise, textChunks, streamErrored,
      bodyFailed>>

sdkVars == <<sseVars, textVars>>

syncVars == <<cliOutcome, syncReply, posted>>

envVars == <<environment, configured>>

extVars == <<history, sdkVars, syncVars, envVars>>

gatewayVars == <<toolVars, poolVars, lastCall, reqVars, history, syncVars, envVars>>

vars == <<toolVars, poolVars, lastCall, reqVars, extVars>>

\* ------------------------------------------------------ tool resolution
includes(list, t) == \E i \in 1..Len(list) : list[i] = t

\* effective.filter((t) => !gatewayDisallowed.includes(t))
filterNotIn(list, denied) ==
    LET keep(t) == ~includes(denied, t) IN SelectSeq(list, keep)

\* Mutant: the intersection keeps every tool of the deployment set.
filterInKeepsAll(list, allowed) == list

\* Mutant: the intersection taken from the request's side,
\* requestAllowed.filter((t) => effective.includes(t)).
filterInRequestOrder(list, allowed) ==
    LET keep(t) == includes(list, t) IN SelectSeq(allowed, keep)

\* effective.filter((t) => requestAllowed.includes(t))
filterIn(list, allowed) ==
    LET keep(t) == includes(allowed, t) IN SelectSeq(list, keep)

\* Mutant: `gatewayAllowed?.length ? [...] : undefined` (an empty list read as absent).
resolveStep1Truthy(gatewayAllowed) ==
    IF gatewayAllowed.defined /\ Len(gatewayAllowed.list) > 0
    THEN Some(gatewayAllowed.list)
    ELSE Undefined

\* Step 1: start with gateway allowed (undefined = all)
resolveStep1(gatewayAllowed) ==
    IF gatewayAllowed.defined THEN Some(gatewayAllowed.list) ELSE Undefined

\* Steps 2 and 4: remove gateway disallowed from the effective set
removeDisallowed(effective, gatewayDisallowed) ==
    IF effective.defined /\ gatewayDisallowed.defined
    THEN Some(filterNotIn(effective.list, gatewayDisallowed.list))
    ELSE effective

\* Mutant: `requestAllowed ?? []` (an absent request list read as an empty one).
intersectRequestDefaulted(effective, requestAllowed) ==
    IF effective.defined
    THEN Some(filterIn(effective.list, requestAllowed.list))
    ELSE Some(requestAllowed.list)

\* Mutant: the request list added to the effective set instead of intersected
\* with it, [...effective, ...requestAllowed].
intersectRequestWidens(effective, requestAllowed) ==
    IF requestAllowed.defined
    THEN IF effective.defined
         THEN Some(effective.list \o requestAllowed.list)
         ELSE Some(requestAllowed.list)
    ELSE effective

\* Step 3: intersect with request allowed (if specified)
intersectRequest(effective, requestAllowed) ==
    IF requestAllowed.defined
    THEN IF effective.defined
         THEN Some(filterIn(effective.list, requestAllowed.list))
         ELSE Some(requestAllowed.list)
    ELSE effective

\* Mutant: step 4 (the second subtraction of gatewayDisallowed) left out.
resolveWithoutFinalPass(opts) ==
    LET s1 == resolveStep1(opts.gatewayAllowed)
        s2 == removeDisallowed(s1, opts.gatewayDisallowed)
        s3 == intersectRequest(s2, opts.requestAllowed)
    IN s3

resolveAllowedTools(opts) ==
    LET s1 == resolveStep1(opts.gatewayAllowed)
        s2 == removeDisallowed(s1, opts.gatewayDisallowed)
        s3 == intersectRequest(s2, opts.requestAllowed)
        s4 == removeDisallowed(s3, opts.gatewayDisallowed)
    IN s4

\* ------------------------------------------------- argument construction
\* The builders live in routes/stream.ts and routes/stream-object.ts; their
\* behaviour is the one their tests pin down.
streamBaseFlags ==
    <<"--print", "--verbose", "--output-format", "stream-json",
      "--include-partial-messages">>

\* "--allowedTools t1 t2 ..." for a non-empty list; nothing for an empty
\* list and nothing for undefined.
allowedToolsArgs(allowedTools) ==
    IF allowedTools.defined /\ Len(allowedTools.list) > 0
    THEN <<"--allowedTools">> \o allowedTools.list
    ELSE <<>>

\* An optional string of a request body that is absent.
Absent == ""

\* Mutant: the flag is pushed whether or not the field is present.
optionArgsAlways(flag, value) == <<flag, value>>

\* "<flag> <value>" for a field that is present, nothing for an absent one.
optionArgs(flag, value) ==
    IF value # Absent THEN <<flag, value>> ELSE <<>>

TestSchema == "{\"type\": \"object\"}"

\* The prompt of an object request, enhanced with the schema.
promptWithSchema(prompt, schema) == prompt \o " JSON Schema: " \o schema

\* The system prompt of an object request: the request's own, if any,
\* followed by the JSON generator instruction.
objectSystemPrompt(system) ==
    IF system # Absent THEN system \o " JSON generator" ELSE "JSON generator"

\* A body with the prompt and the resolved tools only.
BodyOf(prompt, allowedTools) ==
    [prompt |-> prompt, system |-> Absent, model |-> Absent,
     sessionId |-> Absent, schema |-> TestSchema, allowedTools |-> allowedTools]

\* Mutant: the prompt is pushed before the tool list.
buildStreamArgsPromptBeforeTools(request) ==
    streamBaseFlags
        \o optionArgs("--system-prompt", request.system)
        \o optionArgs("--model", request.model)
        \o optionArgs("--resume", request.sessionId)
        \o <<request.prompt>>
        \o allowedToolsArgs(request.allowedTools)

buildStreamArgs(request) ==
    streamBaseFlags
        \o optionArgs("--system-prompt", request.system)
        \o optionArgs("--model", request.model)
        \o optionArgs("--resume", request.sessionId)
        \o allowedToolsArgs(request.allowedTools)
        \o <<request.prompt>>

buildStreamObjectArgs(request) ==
    streamBaseFlags
        \o <<"--system-prompt", objectSystemPrompt(request.system)>>
        \o optionArgs("--model", request.model)
        \o optionArgs("--resume", request.sessionId)
        \o allowedToolsArgs(request.allowedTools)
        \o <<promptWithSchema(request.prompt, request.schema)>>

syncBaseFlags == <<"--print", "--output-format", "json">>

buildGenerateTextArgs(request) ==
    syncBaseFlags
        \o optionArgs("--system-prompt", request.system)
        \o optionArgs("--model", request.model)
        \o optionArgs("--resume", request.sessionId)
        \o allowedToolsArgs(request.allowedTools)
        \o <<request.prompt>>

buildGenerateObjectArgs(request) ==
    syncBaseFlags
        \o <<"--system-prompt", objectSystemPrompt(request.system)>>
        \o optionArgs("--model", request.model)
        \o optionArgs("--resume", request.sessionId)
        \o allowedToolsArgs(request.allowedTools)
        \o <<promptWithSchema(request.prompt, request.schema)>>

buildArgs(request) ==
    CASE request.endpoint = "/stream" -> buildStreamArgs(request)
      [] request.endpoint = "/stream-object" -> buildStreamObjectArgs(request)
      [] request.endpoint = "/generate-text" -> buildGenerateTextArgs(request)
      [] request.endpoint = "/generate-object" -> buildGenerateObjectArgs(request)

ObjectEndpoints == {"/generate-object", "/stream-object"}

\* The body the handler hands to its builder: the request's prompt with the
\* resolved tools, and the schema on the object endpoints.
RequestOf(ep, allowedTools) ==
    [endpoint |-> ep, prompt |-> "test", system |-> Absent, model |-> Absent,
     sessionId |-> Absent,
     schema |-> IF ep \in ObjectEndpoints THEN TestSchema ELSE Absent,
     allowedTools |-> allowedTools]

\* ---------------------------------------------------------- route handler
\* The handler wrapped by withConcurrencyLimit on the four execution
\* endpoints: body validation, tool resolution, the "no eligible tools"
\* rejection, and otherwise the spawn of the subprocess.
NoResponse == [status |-> 0, code |-> "", spawned |-> FALSE]

toolsRequested(body) ==
    body.allowedTools.defined /\ Len(body.allowedTools.list) > 0

routeRequest(ep, body, cfg) ==
    IF ~body.valid
    THEN [status |-> 400, code |-> "VALIDATION_ERROR", spawned |-> FALSE]
    ELSE LET allowedTools == resolveAllowedTools(
                 [gatewayAllowed |-> cfg.allowedTools,
                  gatewayDisallowed |-> cfg.disallowedTools,
                  requestAllowed |-> body.allowedTools])
         IN IF toolsRequested(body) /\ allowedTools.defined
                 /\ Len(allowedTools.list) = 0
            THEN [status |-> 400, code |-> "NO_TOOLS_AVAILABLE", spawned |-> FALSE]
            ELSE [status |-> 0, code |-> "", spawned |-> TRUE]

\* ------------------------------------------------------- admission pools
DefaultMaxStreamingConcurrent == 3

DefaultMaxNonStreamingConcurrent == 5

DefaultConfig ==
    [maxStreamingConcurrent |-> DefaultMaxStreamingConcurrent,
     maxNonStreamingConcurrent |-> DefaultMaxNonStreamingConcurrent]

\* Mutant: `>` instead of `>=` in the limit test.
acquireSlotOffByOne(type, ret) ==
    IF type = "streaming"
    THEN IF streamingCount > config.maxStreamingConcurrent
         THEN ret = FALSE /\ UNCHANGED <<streamingCount, nonStreamingCount>>
         ELSE /\ streamingCount' = streamingCount + 1
              /\ ret = TRUE
              /\ UNCHANGED nonStreamingCount
    ELSE IF nonStreamingCount > config.maxNonStreamingConcurrent
         THEN ret = FALSE /\ UNCHANGED <<streamingCount, nonStreamingCount>>
         ELSE /\ nonStreamingCount' = nonStreamingCount + 1
              /\ ret = TRUE
              /\ UNCHANGED streamingCount

\* Mutant: the count is incremented before the limit test and not restored.
acquireSlotCountsRefusal(type, ret) ==
    IF type = "streaming"
    THEN /\ streamingCount' = streamingCount + 1
         /\ ret = (streamingCount < config.maxStreamingConcurrent)
         /\ UNCHANGED nonStreamingCount
    ELSE /\ nonStreamingCount' = nonStreamingCount + 1
         /\ ret = (nonStreamingCount < config.maxNonStreamingConcurrent)
         /\ UNCHANGED streamingCount

\* acquireSlot(type) returning ret: true if the slot was acquired.
acquireSlot(type, ret) ==
    IF type = "streaming"
    THEN IF streamingCount >= config.maxStreamingConcurrent
         THEN ret = FALSE /\ UNCHANGED <<streamingCount, nonStreamingCount>>
         ELSE /\ streamingCount' = streamingCount + 1
              /\ ret = TRUE
              /\ UNCHANGED nonStreamingCount
    ELSE IF nonStreamingCount >= config.maxNonStreamingConcurrent
         THEN ret = FALSE /\ UNCHANGED <<streamingCount, nonStreamingCount>>
         ELSE /\ nonStreamingCount' = nonStreamingCount + 1
              /\ ret = TRUE
              /\ UNCHANGED streamingCount

Max(a, b) == IF a >= b THEN a ELSE b

\* Mutant: the decrement without the Math.max(0, ...) floor.
releaseSlotUnfloored(type) ==
    IF type = "streaming"
    THEN streamingCount' = streamingCount - 1 /\ UNCHANGED nonStreamingCount
    ELSE nonStreamingCount' = nonStreamingCount - 1 /\ UNCHANGED streamingCount

\* Mutant: one counter shared by both request types.
releaseSlotShared(type) ==
    /\ streamingCount' = Max(0, streamingCount - 1)
    /\ nonStreamingCount' = Max(0, nonStreamingCount - 1)

releaseSlot(type) ==
    IF type = "streaming"
    THEN streamingCount' = Max(0, streamingCount - 1) /\ UNCHANGED nonStreamingCount
    ELSE nonStreamingCount' = Max(0, nonStreamingCount - 1) /\ UNCHANGED streamingCount

resetState == streamingCount' = 0 /\ nonStreamingCount' = 0

\* getStatus(): the active count and the limit of one pool.
active(type) == IF type = "streaming" THEN streamingCount ELSE nonStreamingCount

limit(type) ==
    IF type = "streaming"
    THEN config.maxStreamingConcurrent
    ELSE config.maxNonStreamingConcurrent

\* ------------------------------------------- initial values of each part
NoCall == [fn |-> "", type |-> "", ret |-> FALSE, before |-> 0]

NoOptions ==
    [gatewayAllowed |-> Undefined, gatewayDisallowed |-> Undefined,
     requestAllowed |-> Undefined]

ToolsIdle ==
    /\ options = NoOptions
    /\ endpoint = ""
    /\ resolved = Undefined
    /\ args = <<>>
    /\ response = NoResponse
    /\ tpc = "start"

\* Module load: both counts 0 (lines 24-25).
CountsInit == streamingCount = 0 /\ nonStreamingCount = 0

PoolIdle == config = DefaultConfig /\ CountsInit /\ lastCall = NoCall

NoReply == [retryAfter |-> "", code |-> ""]

ReqIdle ==
    /\ pc = [r \in Requests |-> "idle"]
    /\ reqType = [r \in Requests |-> ""]
    /\ released = [r \in Requests |-> FALSE]
    /\ events = [r \in Requests |-> {}]
    /\ releaseCalls = [r \in Requests |-> 0]
    /\ acquired = [r \in Requests |-> 0]
    /\ spawned = [r \in Requests |-> FALSE]
    /\ status = [r \in Requests |-> 0]
    /\ listeners = [r \in Requests |-> {}]
    /\ limitReply = [r \in Requests |-> NoReply]

SseIdle ==
    /\ stream = <<>>
    /\ pos = 0
    /\ pending = <<>>
    /\ buffer = <<>>
    /\ enqueued = <<>>
    /\ cutKinds = {}
    /\ sseDone = FALSE

\* new Promise(...) before resolve or reject is called
PendingPromise(empty) == [state |-> "pending", value |-> empty, code |-> ""]

TextIdle ==
    /\ received = <<>>
    /\ ended = FALSE
    /\ sessionIdReceived = FALSE
    /\ usageReceived = FALSE
    /\ accumulatedText = <<>>
    /\ sessionIdPromise = PendingPromise("")
    /\ usagePromise = PendingPromise("")
    /\ textPromise = PendingPromise(<<>>)
    /\ textChunks = <<>>
    /\ streamErrored = FALSE
    /\ bodyFailed = FALSE

SdkIdle == SseIdle /\ TextIdle

\* No subprocess has ended, no synchronous reply is written, no body is
\* handed to a builder.
NoOutcome == [timedOut |-> FALSE, exitCode |-> 0, stdout |-> <<>>]

NoSyncReply == [status |-> 0, body |-> <<>>]

NoPosted == [endpoint |-> ""]

SyncIdle ==
    /\ cliOutcome = NoOutcome
    /\ syncReply = NoSyncReply
    /\ posted = NoPosted

\* process.env not read yet
NoEnvironment ==
    [name |-> "", value |-> [set |-> FALSE, text |-> <<>>],
     made |-> [shape |-> "", items |-> <<>>]]

NotConfigured == [loaded |-> FALSE, tools |-> Undefined]

EnvIdle ==
    /\ environment = NoEnvironment
    /\ configured = NotConfigured

ExtIdle == history = <<>> /\ SdkIdle /\ SyncIdle /\ EnvIdle

\* ------------------------------------------------------------- SpecTools
\* Every combination of the three optional lists, then one of: the resolver
\* followed by an argument builder, or a request posted to an endpoint.
ToolsInit ==
    /\ options \in [gatewayAllowed : OptToolLists,
                    gatewayDisallowed : OptToolLists,
                    requestAllowed : OptToolLists]
    /\ endpoint = ""
    /\ resolved = Undefined
    /\ args = <<>>
    /\ response = NoResponse
    /\ tpc = "start"
    /\ PoolIdle
    /\ ReqIdle
    /\ ExtIdle

CallResolve ==
    /\ tpc = "start"
    /\ resolved' = resolveAllowedTools(options)
    /\ tpc' = "resolved"
    /\ UNCHANGED <<options, endpoint, args, response, poolVars, lastCall, reqVars, extVars>>

CallBuildStreamArgs ==
    /\ tpc = "resolved"
    /\ args' = buildStreamArgs(BodyOf("test", resolved))
    /\ endpoint' = "/stream"
    /\ tpc' = "built"
    /\ UNCHANGED <<options, resolved, response, poolVars, lastCall, reqVars, extVars>>

CallBuildStreamObjectArgs ==
    /\ tpc = "resolved"
    /\ args' = buildStreamObjectArgs(BodyOf("test", resolved))
    /\ endpoint' = "/stream-object"
    /\ tpc' = "built"
    /\ UNCHANGED <<options, resolved, response, poolVars, lastCall, reqVars, extVars>>

\* A well-formed body carrying options.requestAllowed, handled under the
\* deployment lists of options.
PostRequest ==
    /\ tpc = "start"
    /\ \E ep \in Endpoints :
          LET reply == routeRequest(ep,
                  [valid |-> TRUE, allowedTools |-> options.requestAllowed],
                  [allowedTools |-> options.gatewayAllowed,
                   disallowedTools |-> options.gatewayDisallowed])
          IN
          /\ endpoint' = ep
          /\ response' = reply
          /\ args' = IF reply.spawned
                     THEN buildArgs(RequestOf(ep, resolveAllowedTools(options)))
                     ELSE <<>>
    /\ tpc' = "handled"
    /\ UNCHANGED <<options, resolved, poolVars, lastCall, reqVars, extVars>>

ToolsNext ==
    \/ CallResolve
    \/ CallBuildStreamArgs
    \/ CallBuildStreamObjectArgs
    \/ PostRequest

SpecTools == ToolsInit /\ [][ToolsNext]_vars

\* -------------------------------------------------------------- SpecPool
\* Direct calls on the two pools with the maxima fixed at configuration.
PoolInit ==
    /\ config \in [maxStreamingConcurrent : 0..MaxLimit,
                   maxNonStreamingConcurrent : 0..MaxLimit]
    /\ CountsInit
    /\ lastCall = NoCall
    /\ ToolsIdle
    /\ ReqIdle
    /\ ExtIdle

CallAcquireSlot ==
    \E type \in RequestType, ret \in BOOLEAN :
        /\ acquireSlot(type, ret)
        /\ lastCall' = [fn |-> "acquireSlot", type |-> type, ret |-> ret,
                        before |-> active(type)]
        /\ UNCHANGED <<config, toolVars, reqVars, extVars>>

CallReleaseSlot ==
    \E type \in RequestType :
        /\ releaseSlot(type)
        /\ lastCall' = [fn |-> "releaseSlot", type |-> type, ret |-> FALSE,
                        before |-> active(type)]
        /\ UNCHANGED <<config, toolVars, reqVars, extVars>>

CallResetState ==
    /\ resetState
    /\ lastCall' = [fn |-> "resetState", type |-> "", ret |-> FALSE, before |-> 0]
    /\ UNCHANGED <<config, toolVars, reqVars, extVars>>

PoolNext ==
    \/ CallAcquireSlot
    \/ CallReleaseSlot
    \/ CallResetState

SpecPool == PoolInit /\ [][PoolNext]_vars

\* ------------------------------------------------------------- SpecCalls
\* Sequences of acquireSlot and releaseSlot calls from empty pools, as the
\* unit tests make them after setConfig and resetState, with every call and
\* its result kept.
MaxCalls == MaxLimit + 4

CallsInit ==
    /\ config \in [maxStreamingConcurrent : 0..MaxLimit,
                   maxNonStreamingConcurrent : 0..MaxLimit]
    /\ CountsInit
    /\ lastCall = NoCall
    /\ ToolsIdle
    /\ ReqIdle
    /\ ExtIdle

NextAcquireSlot ==
    /\ Len(history) < MaxCalls
    /\ \E type \in RequestType, ret \in BOOLEAN :
          /\ acquireSlot(type, ret)
          /\ history' = Append(history,
                 [fn |-> "acquireSlot", type |-> type, ret |-> ret])
    /\ UNCHANGED <<config, lastCall, toolVars, reqVars, sdkVars, syncVars, envVars>>

NextReleaseSlot ==
    /\ Len(history) < MaxCalls
    /\ \E type \in RequestType :
          /\ releaseSlot(type)
          /\ history' = Append(history,
                 [fn |-> "releaseSlot", type |-> type, ret |-> FALSE])
    /\ UNCHANGED <<config, lastCall, toolVars, reqVars, sdkVars, syncVars, envVars>>

CallsNext ==
    \/ NextAcquireSlot
    \/ NextReleaseSlot

SpecCalls == CallsInit /\ [][CallsNext]_vars

\* ------------------------------------------------------------------ Spec
\* Concurrent requests through withConcurrencyLimit around the route handler.
\* Deployment lists and request bodies are those of the integration tests.
gatewayConfig ==
    [allowedTools |-> Undefined,
     disallowedTools |-> Some(<<"Write", "Edit", "Bash(rm:*)">>)]

RequestBodies ==
    {[valid |-> FALSE, allowedTools |-> Undefined]}
        \cup {[valid |-> TRUE, allowedTools |-> a] :
                 a \in {Undefined, Some(<<"Write", "Edit">>), Some(<<"Read", "Write">>)}}

PoolOf(ep) ==
    IF ep \in {"/stream", "/stream-object"} THEN "streaming" ELSE "nonStreaming"

\* Mutant: the release closure without its `released` guard.
releaseUnguarded(r) ==
    /\ released' = [released EXCEPT ![r] = TRUE]
    /\ releaseSlot(reqType[r])
    /\ releaseCalls' = [releaseCalls EXCEPT ![r] = @ + 1]

\* const release = () => { if (!released) { released = true; releaseSlot(type); } }
release(r) ==
    IF ~released[r]
    THEN /\ released' = [released EXCEPT ![r] = TRUE]
         /\ releaseSlot(reqType[r])
         /\ releaseCalls' = [releaseCalls EXCEPT ![r] = @ + 1]
    ELSE UNCHANGED <<released, streamingCount, nonStreamingCount, releaseCalls>>

\* res.on("finish", release)
onFinish(r) == release(r)

\* Mutant: no listener registered for "close".
onCloseNotRegistered(r) ==
    UNCHANGED <<released, streamingCount, nonStreamingCount, releaseCalls>>

\* res.on("close", release)
onClose(r) == release(r)

\* res.setHeader("Retry-After", "5"); res.status(429).json({ ..., code })
rejectReply == [retryAfter |-> "5", code |-> "CONCURRENCY_LIMIT_ERROR"]

\* Mutant: the listeners registered before the capacity check.
registerListenersAlways(ret) == {"finish", "close"}

\* The 429 branch returns before res.on("finish") and res.on("close").
registerListeners(ret) == IF ret THEN {"finish", "close"} ELSE {}

Init ==
    /\ \E cap \in 0..MaxCap :
          config = [maxStreamingConcurrent |-> cap,
                    maxNonStreamingConcurrent |-> cap]
    /\ CountsInit
    /\ lastCall = NoCall
    /\ ToolsIdle
    /\ ReqIdle
    /\ ExtIdle

\* The wrapper up to the handler call: acquireSlot, then either the 429 answer
\* or the release closure and its two listeners.
Arrive(r) ==
    /\ pc[r] = "idle"
    /\ \E ep \in Endpoints, ret \in BOOLEAN :
          /\ acquireSlot(PoolOf(ep), ret)
          /\ reqType' = [reqType EXCEPT ![r] = PoolOf(ep)]
          /\ acquired' = [acquired EXCEPT ![r] =
                 (streamingCount' + nonStreamingCount')
                     - (streamingCount + nonStreamingCount)]
          /\ listeners' = [listeners EXCEPT ![r] = registerListeners(ret)]
          /\ IF ret
             THEN /\ pc' = [pc EXCEPT ![r] = "admitted"]
                  /\ UNCHANGED <<status, limitReply>>
             ELSE /\ pc' = [pc EXCEPT ![r] = "rejected"]
                  /\ status' = [status EXCEPT ![r] = 429]
                  /\ limitReply' = [limitReply EXCEPT ![r] = rejectReply]
    /\ UNCHANGED <<released, events, releaseCalls, spawned>>
    /\ UNCHANGED <<config, lastCall, toolVars, extVars>>

\* The handler up to its first suspension: a 400 answer, or the spawn.
Handle(r) ==
    /\ pc[r] = "admitted"
    /\ \E ep \in Endpoints, body \in RequestBodies :
          /\ PoolOf(ep) = reqType[r]
          /\ LET out == routeRequest(ep, body, gatewayConfig) IN
             IF out.spawned
             THEN /\ spawned' = [spawned EXCEPT ![r] = TRUE]
                  /\ pc' = [pc EXCEPT ![r] = "running"]
                  /\ UNCHANGED status
             ELSE /\ status' = [status EXCEPT ![r] = out.status]
                  /\ pc' = [pc EXCEPT ![r] = "responded"]
                  /\ UNCHANGED spawned
    /\ UNCHANGED <<reqType, released, events, releaseCalls, acquired, listeners, limitReply>>
    /\ UNCHANGED <<poolVars, lastCall, toolVars, extVars>>

\* The subprocess ends and the handler writes its answer. The answer of a
\* failed subprocess (500) takes the same path through the wrapper as the 200
\* one and is not told apart here.
CliExit(r) ==
    /\ pc[r] = "running"
    /\ status' = [status EXCEPT ![r] = 200]
    /\ pc' = [pc EXCEPT ![r] = "responded"]
    /\ UNCHANGED <<reqType, released, events, releaseCalls, acquired, spawned,
                   listeners, limitReply>>
    /\ UNCHANGED <<poolVars, lastCall, toolVars, extVars>>

\* The handler throws or rejects: catch (error) { release(); throw error; }
Throw(r) ==
    /\ pc[r] \in {"admitted", "running", "responded"}
    /\ release(r)
    /\ pc' = [pc EXCEPT ![r] = "thrown"]
    /\ UNCHANGED <<reqType, events, acquired, spawned, status, listeners, limitReply>>
    /\ UNCHANGED <<config, lastCall, toolVars, extVars>>

\* No listener of the wrapper is registered for the event.
notListening == UNCHANGED <<released, streamingCount, nonStreamingCount, releaseCalls>>

\* The response, the wrapper's 429 included, has been handed to the network:
\* 'finish'.
Finish(r) ==
    /\ pc[r] \in {"responded", "thrown", "rejected"}
    /\ events[r] = {}
    /\ events' = [events EXCEPT ![r] = {"finish"}]
    /\ IF "finish" \in listeners[r] THEN onFinish(r) ELSE notListening
    /\ UNCHANGED <<pc, reqType, acquired, spawned, status, listeners, limitReply>>
    /\ UNCHANGED <<config, lastCall, toolVars, extVars>>

\* The connection is gone, after 'finish' or by a client disconnect: 'close'.
Close(r) ==
    /\ pc[r] \in {"admitted", "running", "responded", "thrown", "rejected"}
    /\ "close" \notin events[r]
    /\ events' = [events EXCEPT ![r] = @ \cup {"close"}]
    /\ IF "close" \in listeners[r] THEN onClose(r) ELSE notListening
    /\ UNCHANGED <<pc, reqType, acquired, spawned, status, listeners, limitReply>>
    /\ UNCHANGED <<config, lastCall, toolVars, extVars>>

Next ==
    \E r \in Requests :
        \/ Arrive(r)
        \/ Handle(r)
        \/ CliExit(r)
        \/ Throw(r)
        \/ Finish(r)
        \/ Close(r)

Spec == Init /\ [][Next]_vars

\* Every connection ends: 'close' is emitted for every response.
LiveSpec == Spec /\ \A r \in Requests : WF_vars(Close(r))

\* --------------------------------------------------------------- SpecSSE
\* createSSEParser over the bytes of a response body, cut into chunks at any
\* byte positions. Text is a sequence of characters, one string each.
LF == "\n"

EventPrefix == <<"e", "v", "e", "n", "t", ":", " ">>

DataPrefix == <<"d", "a", "t", "a", ":", " ">>

\* The two-byte UTF-8 encoding of U+00E9.
LeadByte == "C3"

ContinuationByte == "A9"

\* The pieces response bodies are put together from: the two lines of a
\* record, the same with a two-byte character as data and no line end, a line
\* end, a data line alone and an event line alone.
Pieces ==
    { EventPrefix \o <<"a", LF>> \o DataPrefix \o <<"1", LF>>,
      EventPrefix \o <<"b", LF>> \o DataPrefix \o <<LeadByte, ContinuationByte>>,
      <<LF>>,
      DataPrefix \o <<"2">>,
      EventPrefix \o <<"c">> }

RECURSIVE Flatten(_)
Flatten(ss) == IF ss = <<>> THEN <<>> ELSE Head(ss) \o Flatten(Tail(ss))

\* The byte at position i ends a two-byte character.
endsCharacter(bytes, i) ==
    i > 1 /\ bytes[i] = ContinuationByte /\ bytes[i - 1] = LeadByte

\* The character decoded for the byte at position i, where one begins: the
\* two-byte character, U+FFFD for a byte that cannot begin or continue one,
\* the byte itself otherwise.
characterAt(bytes, i) ==
    IF bytes[i] = LeadByte
    THEN IF i < Len(bytes) /\ bytes[i + 1] = ContinuationByte
         THEN "U+00E9" ELSE "U+FFFD"
    ELSE IF bytes[i] = ContinuationByte THEN "U+FFFD" ELSE bytes[i]

\* The positions where a character begins, the last byte left out when it is
\* held back.
characterStarts(bytes, heldBack) ==
    LET begins(i) ==
            /\ ~endsCharacter(bytes, i)
            /\ ~(heldBack /\ i = Len(bytes))
    IN SelectSeq([i \in 1..Len(bytes) |-> i], begins)

\* The characters decoded at the given positions.
decodeAt(bytes, at) == [k \in 1..Len(at) |-> characterAt(bytes, at[k])]

\* Mutant: decoder.decode(chunk) without { stream: true }: an incomplete
\* character at the end of a chunk is replaced at once.
decodeEachChunkAlone(bytes) ==
    [text |-> decodeAt(bytes, characterStarts(bytes, FALSE)), pending |-> <<>>]

\* decoder.decode(chunk, { stream: true }) over the held-back bytes followed
\* by the chunk: the text decoded and the bytes held back for the next call.
decode(bytes) ==
    LET incomplete == bytes # <<>> /\ bytes[Len(bytes)] = LeadByte
    IN [text |-> decodeAt(bytes, characterStarts(bytes, incomplete)),
        pending |-> IF incomplete THEN <<LeadByte>> ELSE <<>>]

\* String.prototype.indexOf, counted from 1; 0 when d does not occur in s.
indexOf(s, d) ==
    LET at == {i \in 1..(Len(s) - Len(d) + 1) :
                  \A j \in 1..Len(d) : s[i + j - 1] = d[j]}
    IN IF at = {} THEN 0 ELSE CHOOSE i \in at : \A j \in at : i <= j

\* String.prototype.split with a separator string.
RECURSIVE split(_, _)
split(s, d) ==
    LET i == indexOf(s, d) IN
    IF i = 0 THEN <<s>>
    ELSE <<SubSeq(s, 1, i - 1)>> \o split(SubSeq(s, i + Len(d), Len(s)), d)

startsWith(s, prefix) ==
    Len(s) >= Len(prefix) /\ SubSeq(s, 1, Len(prefix)) = prefix

slice(s, n) == SubSeq(s, n + 1, Len(s))

\* !s.trim()
blank(s) == \A i \in 1..Len(s) : s[i] \in {" ", LF}

\* for (const line of lines) { event: ... else data: ... }: the last line of
\* each kind wins.
RECURSIVE parseLines(_, _, _)
parseLines(lines, eventType, data) ==
    IF lines = <<>> THEN [event |-> eventType, data |-> data]
    ELSE IF startsWith(Head(lines), EventPrefix)
    THEN parseLines(Tail(lines), slice(Head(lines), 7), data)
    ELSE IF startsWith(Head(lines), DataPrefix)
    THEN parseLines(Tail(lines), eventType, slice(Head(lines), 6))
    ELSE parseLines(Tail(lines), eventType, data)

\* What one record's text makes the parser enqueue: nothing, or one record.
enqueueOf(eventStr) ==
    IF blank(eventStr) THEN <<>>
    ELSE LET parsed == parseLines(split(eventStr, <<LF>>), <<>>, <<>>)
         IN IF parsed.event # <<>> /\ parsed.data # <<>> THEN <<parsed>> ELSE <<>>

RECURSIVE enqueueAll(_)
enqueueAll(eventStrs) ==
    IF eventStrs = <<>> THEN <<>>
    ELSE enqueueOf(Head(eventStrs)) \o enqueueAll(Tail(eventStrs))

\* Mutant: the text after the last blank line is not kept for the next chunk.
popDropsTail(eventStrs) == <<>>

\* buffer = events.pop() || ""
pop(eventStrs) == eventStrs[Len(eventStrs)]

\* transform(chunk, controller) from the state (held-back bytes, buffer): the
\* new state and the records enqueued.
transform(held, buf, chunk) ==
    LET decoded == decode(held \o chunk)
        eventStrs == split(buf \o decoded.text, <<LF, LF>>)
    IN [pending |-> decoded.pending,
        buffer |-> pop(eventStrs),
        enqueued |-> enqueueAll(SubSeq(eventStrs, 1, Len(eventStrs) - 1))]

\* Mutant: no flush handler.
flushNothing(buf) == <<>>

\* flush(controller): the records enqueued for what is left in the buffer.
flush(buf) == enqueueOf(buf)

\* What a boundary after byte p of the body cuts through.
cutKindsAt(p) ==
    IF p >= Len(stream) THEN {}
    ELSE (IF stream[p] = LF /\ stream[p + 1] = LF THEN {"delimiter"} ELSE {})
            \cup (IF stream[p] = LeadByte THEN {"character"} ELSE {})

SSEInit ==
    /\ \E n \in 0..MaxPieces :
          \E ps \in [1..n -> Pieces] : stream = Flatten(ps)
    /\ pos = 0
    /\ pending = <<>>
    /\ buffer = <<>>
    /\ enqueued = <<>>
    /\ cutKinds = {}
    /\ sseDone = FALSE
    /\ ToolsIdle
    /\ PoolIdle
    /\ ReqIdle
    /\ history = <<>>
    /\ TextIdle
    /\ SyncIdle
    /\ EnvIdle

\* The next chunk of any length arrives.
Transform ==
    /\ ~sseDone
    /\ \E n \in 1..(Len(stream) - pos) :
          LET t == transform(pending, buffer, SubSeq(stream, pos + 1, pos + n)) IN
          /\ pos' = pos + n
          /\ pending' = t.pending
          /\ buffer' = t.buffer
          /\ enqueued' = enqueued \o t.enqueued
          /\ cutKinds' = cutKinds \cup cutKindsAt(pos + n)
    /\ UNCHANGED <<stream, sseDone, gatewayVars, textVars>>

\* The body has ended.
Flush ==
    /\ ~sseDone
    /\ pos = Len(stream)
    /\ enqueued' = enqueued \o flush(buffer)
    /\ sseDone' = TRUE
    /\ UNCHANGED <<stream, pos, pending, buffer, cutKinds, gatewayVars, textVars>>

SSENext ==
    \/ Transform
    \/ Flush

SpecSSE == SSEInit /\ [][SSENext]_vars

\* -------------------------------------------------------------- SpecText
\* The second transform of streamText over the SSE events of one response.
\* Text is a sequence of characters, as in SpecSSE.
SessionData == "{\"sessionId\":\"s1\"}"

TextDataA == "{\"text\":\"a\"}"

TextDataBC == "{\"text\":\"bc\"}"

ResultData == "{\"sessionId\":\"s2\",\"usage\":\"u1\"}"

ErrorData == "{\"error\":\"boom\"}"

ErrorDataCoded == "{\"error\":\"boom\",\"code\":\"CLI_EXIT_ERROR\"}"

MalformedData == "{"

\* JSON.parse: the value of a document, or a SyntaxError thrown.
JSONparse(data) ==
    CASE data = SessionData -> [ok |-> TRUE, value |-> [sessionId |-> "s1"]]
      [] data = TextDataA -> [ok |-> TRUE, value |-> [text |-> <<"a">>]]
      [] data = TextDataBC -> [ok |-> TRUE, value |-> [text |-> <<"b", "c">>]]
      [] data = ResultData ->
            [ok |-> TRUE, value |-> [sessionId |-> "s2", usage |-> "u1"]]
      [] data = ErrorData -> [ok |-> TRUE, value |-> [error |-> "boom"]]
      [] data = ErrorDataCoded ->
            [ok |-> TRUE, value |-> [error |-> "boom", code |-> "CLI_EXIT_ERROR"]]
      [] data = "{}" -> [ok |-> TRUE, value |-> <<>>]
      [] OTHER -> [ok |-> FALSE, value |-> [error |-> "SyntaxError"]]

\* The events a response can carry: each kind well-formed and malformed, and
\* a kind the SDK does not know.
SseEvents ==
    {[event |-> "session", data |-> d] : d \in {SessionData, MalformedData}}
        \cup {[event |-> "text", data |-> d] :
                  d \in {TextDataA, TextDataBC, MalformedData}}
        \cup {[event |-> "result", data |-> d] : d \in {ResultData, MalformedData}}
        \cup {[event |-> "error", data |-> d] :
                  d \in {ErrorData, ErrorDataCoded, MalformedData}}
        \cup {[event |-> "done", data |-> "{}"],
               [event |-> "ping", data |-> "{}"]}

\* resolve(value): settles a pending promise, no effect on a settled one.
resolvePromise(promise, value) ==
    IF promise.state = "pending"
    THEN [promise EXCEPT !.state = "resolved", !.value = value]
    ELSE promise

\* Mutant: reject(error) takes effect on a settled promise as well.
rejectPromiseOverwrites(promise, code) ==
    [promise EXCEPT !.state = "rejected", !.code = code]

\* reject(error): settles a pending promise, no effect on a settled one.
rejectPromise(promise, code) ==
    IF promise.state = "pending"
    THEN [promise EXCEPT !.state = "rejected", !.code = code]
    ELSE promise

\* if (!sessionIdReceived) { sessionIdReceived = true; resolveSessionId(id); }
resolveSessionIdOnce(id) ==
    IF ~sessionIdReceived
    THEN /\ sessionIdReceived' = TRUE
         /\ sessionIdPromise' = resolvePromise(sessionIdPromise, id)
    ELSE UNCHANGED <<sessionIdReceived, sessionIdPromise>>

\* case "session"
caseSession(parsed) ==
    /\ resolveSessionIdOnce(parsed.sessionId)
    /\ UNCHANGED <<usageReceived, accumulatedText, usagePromise, textPromise,
                   textChunks, streamErrored>>

\* Mutant: controller.enqueue(accumulatedText), the text so far for the delta.
caseTextCumulative(parsed) ==
    /\ accumulatedText' = accumulatedText \o parsed.text
    /\ textChunks' = Append(textChunks, accumulatedText')
    /\ UNCHANGED <<sessionIdReceived, usageReceived, sessionIdPromise,
                   usagePromise, textPromise, streamErrored>>

\* case "text"
caseText(parsed) ==
    /\ accumulatedText' = accumulatedText \o parsed.text
    /\ textChunks' = Append(textChunks, parsed.text)
    /\ UNCHANGED <<sessionIdReceived, usageReceived, sessionIdPromise,
                   usagePromise, textPromise, streamErrored>>

\* Mutant: the result event settles usage only.
caseResultUsageOnly(parsed) ==
    /\ usageReceived' = TRUE
    /\ usagePromise' = resolvePromise(usagePromise, parsed.usage)
    /\ UNCHANGED <<sessionIdReceived, sessionIdPromise, accumulatedText,
                   textPromise, textChunks, streamErrored>>

\* case "result"
caseResult(parsed) ==
    /\ usageReceived' = TRUE
    /\ usagePromise' = resolvePromise(usagePromise, parsed.usage)
    /\ resolveSessionIdOnce(parsed.sessionId)
    /\ UNCHANGED <<accumulatedText, textPromise, textChunks, streamErrored>>

\* Mutant: the error case without controller.error(error).
caseErrorStreamContinues(parsed) ==
    LET code == IF "code" \in DOMAIN parsed THEN parsed.code ELSE "STREAM_ERROR" IN
    /\ usageReceived' = TRUE
    /\ usagePromise' = rejectPromise(usagePromise, code)
    /\ textPromise' = rejectPromise(textPromise, code)
    /\ sessionIdPromise' =
          IF ~sessionIdReceived THEN rejectPromise(sessionIdPromise, code)
          ELSE sessionIdPromise
    /\ UNCHANGED <<sessionIdReceived, accumulatedText, textChunks, streamErrored>>

\* case "error": parsed.code || "STREAM_ERROR"
caseError(parsed) ==
    LET code == IF "code" \in DOMAIN parsed THEN parsed.code ELSE "STREAM_ERROR" IN
    /\ usageReceived' = TRUE
    /\ usagePromise' = rejectPromise(usagePromise, code)
    /\ textPromise' = rejectPromise(textPromise, code)
    /\ sessionIdPromise' =
          IF ~sessionIdReceived THEN rejectPromise(sessionIdPromise, code)
          ELSE sessionIdPromise
    /\ streamErrored' = TRUE
    /\ UNCHANGED <<sessionIdReceived, accumulatedText, textChunks>>

\* Mutant: done leaves the text promise to flush.
caseDoneLeftToFlush ==
    UNCHANGED <<sessionIdReceived, usageReceived, accumulatedText,
                sessionIdPromise, usagePromise, textPromise, textChunks,
                streamErrored>>

\* case "done"
caseDone ==
    /\ textPromise' = resolvePromise(textPromise, accumulatedText)
    /\ UNCHANGED <<sessionIdReceived, usageReceived, accumulatedText,
                   sessionIdPromise, usagePromise, textChunks, streamErrored>>

\* Nothing of the transform's state changes.
eventIgnored ==
    UNCHANGED <<sessionIdReceived, usageReceived, accumulatedText,
                sessionIdPromise, usagePromise, textPromise, textChunks,
                streamErrored>>

\* Mutant: the catch block treats every event as critical.
catchParseErrorAllCritical(isCriticalEvent) ==
    /\ IF ~usageReceived
       THEN /\ usageReceived' = TRUE
            /\ usagePromise' = rejectPromise(usagePromise, "SSE_PARSE_ERROR")
       ELSE UNCHANGED <<usageReceived, usagePromise>>
    /\ textPromise' = rejectPromise(textPromise, "SSE_PARSE_ERROR")
    /\ sessionIdPromise' =
          IF ~sessionIdReceived
          THEN rejectPromise(sessionIdPromise, "SSE_PARSE_ERROR")
          ELSE sessionIdPromise
    /\ streamErrored' = TRUE
    /\ UNCHANGED <<sessionIdReceived, accumulatedText, textChunks>>

\* catch (parseError)
catchParseError(isCriticalEvent) ==
    IF isCriticalEvent
    THEN /\ IF ~usageReceived
            THEN /\ usageReceived' = TRUE
                 /\ usagePromise' = rejectPromise(usagePromise, "SSE_PARSE_ERROR")
            ELSE UNCHANGED <<usageReceived, usagePromise>>
         /\ textPromise' = rejectPromise(textPromise, "SSE_PARSE_ERROR")
         /\ sessionIdPromise' =
               IF ~sessionIdReceived
               THEN rejectPromise(sessionIdPromise, "SSE_PARSE_ERROR")
               ELSE sessionIdPromise
         /\ streamErrored' = TRUE
         /\ UNCHANGED <<sessionIdReceived, accumulatedText, textChunks>>
    ELSE eventIgnored

\* transform(sseEvent, controller)
transformEvent(sseEvent) ==
    LET isCriticalEvent == sseEvent.event \in {"session", "result", "error", "done"}
        json == JSONparse(sseEvent.data)
    IN CASE sseEvent.event = "done" -> caseDone
         [] sseEvent.event \in {"session", "text", "result", "error"} /\ ~json.ok ->
                catchParseError(isCriticalEvent)
         [] sseEvent.event = "session" /\ json.ok -> caseSession(json.value)
         [] sseEvent.event = "text" /\ json.ok -> caseText(json.value)
         [] sseEvent.event = "result" /\ json.ok -> caseResult(json.value)
         [] sseEvent.event = "error" /\ json.ok -> caseError(json.value)
         [] OTHER -> eventIgnored

\* Mutant: flush rejects a text promise that no done event has resolved.
flushTextRejectsUnmarked ==
    /\ sessionIdPromise' =
          IF ~sessionIdReceived THEN rejectPromise(sessionIdPromise, "NO_SESSION")
          ELSE sessionIdPromise
    /\ usagePromise' =
          IF ~usageReceived THEN rejectPromise(usagePromise, "NO_USAGE")
          ELSE usagePromise
    /\ textPromise' = rejectPromise(textPromise, "STREAM_ERROR")
    /\ UNCHANGED <<sessionIdReceived, usageReceived, accumulatedText,
                   textChunks, streamErrored>>

\* Mutant: flush settles a missing usage with a default instead of rejecting.
flushTextDefaultUsage ==
    /\ sessionIdPromise' =
          IF ~sessionIdReceived THEN rejectPromise(sessionIdPromise, "NO_SESSION")
          ELSE sessionIdPromise
    /\ usagePromise' = resolvePromise(usagePromise, "u0")
    /\ textPromise' = resolvePromise(textPromise, accumulatedText)
    /\ UNCHANGED <<sessionIdReceived, usageReceived, accumulatedText,
                   textChunks, streamErrored>>

\* flush()
flushText ==
    /\ sessionIdPromise' =
          IF ~sessionIdReceived THEN rejectPromise(sessionIdPromise, "NO_SESSION")
          ELSE sessionIdPromise
    /\ usagePromise' =
          IF ~usageReceived THEN rejectPromise(usagePromise, "NO_USAGE")
          ELSE usagePromise
    /\ textPromise' = resolvePromise(textPromise, accumulatedText)
    /\ UNCHANGED <<sessionIdReceived, usageReceived, accumulatedText,
                   textChunks, streamErrored>>

TextInit ==
    /\ ToolsIdle
    /\ PoolIdle
    /\ ReqIdle
    /\ ExtIdle

\* The SSE parser hands over the next event; an errored stream takes none.
OnSseEvent ==
    /\ ~ended /\ ~streamErrored /\ ~bodyFailed
    /\ Len(received) < MaxEvents
    /\ \E sseEvent \in SseEvents :
          /\ received' = Append(received, sseEvent)
          /\ transformEvent(sseEvent)
    /\ UNCHANGED <<ended, bodyFailed, gatewayVars, sseVars>>

\* The response body ends without the stream having errored.
OnStreamEnd ==
    /\ ~ended /\ ~streamErrored /\ ~bodyFailed
    /\ ended' = TRUE
    /\ flushText
    /\ UNCHANGED <<received, bodyFailed, gatewayVars, sseVars>>

\* response.body errors or is aborted before its end: the pipe aborts both
\* transforms, textStream errors, and neither transform nor flush runs again.
BodyFails ==
    /\ ~ended /\ ~streamErrored /\ ~bodyFailed
    /\ bodyFailed' = TRUE
    /\ eventIgnored
    /\ UNCHANGED <<received, ended, gatewayVars, sseVars>>

TextNext ==
    \/ OnSseEvent
    \/ OnStreamEnd
    \/ BodyFails

SpecText == TextInit /\ [][TextNext]_vars

\* Every response body comes to an end or fails.
LiveText == SpecText /\ WF_vars(OnStreamEnd \/ BodyFails)

\* ------------------------------------------------ claims under SpecTools
Resolved == tpc \in {"resolved", "built"}

A == options.gatewayAllowed

D == options.gatewayDisallowed

R == options.requestAllowed

\* C1: whenever resolveAllowedTools returns an explicit list, for any
\* deploymentAllowed, deploymentDenied and requestAllowed (absent, empty or
\* not), that list contains no member of deploymentDenied.
C1_NoDeniedToolInResult ==
    (Resolved /\ resolved.defined /\ D.defined)
        => \A i \in 1..Len(resolved.list) : ~includes(D.list, resolved.list[i])

\* The request-only path: no deployment allow-list, the request names a denied
\* tool and another one, and the explicit result keeps only the other one.
C1_Witness ==
    /\ tpc = "resolved"
    /\ ~A.defined /\ D.defined /\ R.defined
    /\ \E i \in 1..Len(R.list) : includes(D.list, R.list[i])
    /\ resolved.defined /\ Len(resolved.list) > 0

\* C9: the result is "unrestricted" (undefined) exactly when deploymentAllowed
\* and requestAllowed are both absent, whatever deploymentDenied is.
C9_UnrestrictedIffNoAllowLists ==
    Resolved => (~resolved.defined <=> (~A.defined /\ ~R.defined))

\* A deny-list alone does not produce an explicit list.
C9_Witness ==
    /\ tpc = "resolved"
    /\ ~A.defined /\ ~R.defined
    /\ D.defined /\ Len(D.list) > 0
    /\ ~resolved.defined

\* C10: with deploymentDenied and requestAllowed absent, the result is the
\* list deploymentAllowed itself, element for element in the same order, and
\* the explicit empty list when deploymentAllowed is empty.
C10_AllowedOnlyIsReturnedAsIs ==
    (Resolved /\ A.defined /\ ~D.defined /\ ~R.defined)
        => (resolved.defined /\ resolved.list = A.list)

C10_Witness ==
    /\ tpc = "resolved"
    /\ A.defined /\ ~D.defined /\ ~R.defined
    /\ Len(A.list) = 2 /\ A.list[1] = "Write" /\ A.list[2] = "Read"
    /\ resolved = Some(<<"Write", "Read">>)

\* Position of the --allowedTools flag in an argument list, 0 when absent.
flagIndex(a) ==
    IF \E i \in 1..Len(a) : a[i] = "--allowedTools"
    THEN CHOOSE i \in 1..Len(a) : a[i] = "--allowedTools"
    ELSE 0

\* The tokens that follow the flag up to the next token that is no tool.
toolsAfterFlag(a) ==
    LET i == flagIndex(a)
        n == CHOOSE k \in 0..(Len(a) - i) :
                 /\ \A j \in 1..k : a[i + j] \in Tools
                 /\ (i + k + 1 <= Len(a) => a[i + k + 1] \notin Tools)
    IN SubSeq(a, i + 1, i + n)

\* C8: argument construction emits --allowedTools for every EffectiveToolSet
\* that is not "unrestricted": followed by the tools in resolver order when
\* the set is non-empty, with zero following tokens when it is explicit-empty;
\* the flag is omitted only when the set is "unrestricted".
C8_FlagForEverySetNotUnrestricted ==
    tpc = "built" =>
        IF resolved.defined
        THEN flagIndex(args) > 0 /\ toolsAfterFlag(args) = resolved.list
        ELSE flagIndex(args) = 0

\* The tools that pass the deployment lists among the requested ones.
survives(t) ==
    /\ includes(R.list, t)
    /\ A.defined => includes(A.list, t)
    /\ D.defined => ~includes(D.list, t)

RECURSIVE IsSubsequence(_, _)
IsSubsequence(s, t) ==
    IF s = <<>> THEN TRUE
    ELSE IF t = <<>> THEN FALSE
    ELSE IF Head(s) = Head(t) THEN IsSubsequence(Tail(s), Tail(t))
    ELSE IsSubsequence(s, Tail(t))

\* The list an explicit result is drawn from.
baseList == IF A.defined THEN A.list ELSE R.list

\* C11: an explicit result is an order-preserving subsequence of its base
\* list: of deploymentAllowed when that is present, otherwise of
\* requestAllowed. The resolver never reorders and never adds a tool.
C11_ResultIsSubsequenceOfBase ==
    (Resolved /\ resolved.defined) => IsSubsequence(resolved.list, baseList)

\* Both allow-lists name the same two tools in opposite orders; the result
\* keeps the order of deploymentAllowed.
C11_Witness ==
    /\ tpc = "resolved"
    /\ A = Some(<<"Write", "Read">>) /\ R = Some(<<"Read", "Write">>)
    /\ ~D.defined
    /\ resolved = Some(<<"Write", "Read">>)

\* C12: requestAllowed can only narrow. With requestAllowed present every
\* tool of resolve(A, D, R) is in R, and when deploymentAllowed is present
\* every tool of resolve(A, D, R) is also in resolve(A, D, absent).
C12_RequestOnlyNarrows ==
    (Resolved /\ R.defined) =>
        LET without == resolveAllowedTools([options EXCEPT !.requestAllowed = Undefined])
        IN /\ resolved.defined
           /\ \A i \in 1..Len(resolved.list) :
                  /\ includes(R.list, resolved.list[i])
                  /\ A.defined =>
                        (without.defined /\ includes(without.list, resolved.list[i]))

\* The request names a tool the deployment does not allow next to one it
\* does; only the allowed one is granted.
C12_Witness ==
    /\ tpc = "resolved"
    /\ A.defined /\ R.defined
    /\ \E i \in 1..Len(R.list) : ~includes(A.list, R.list[i])
    /\ resolved.defined /\ Len(resolved.list) > 0
    /\ \A i \in 1..Len(resolved.list) : includes(A.list, resolved.list[i])

\* ------------------------------------------------- claims under SpecPool
\* C3: acquireSlot never blocks or queues: a call is always possible and
\* returns at once; with the pool's active count at or above its maximum it
\* returns false and leaves both counts unchanged, otherwise it returns true
\* and increments that pool's count, and only that one, by exactly one.
C3_AcquireStep ==
    lastCall'.fn = "acquireSlot" =>
        LET t == lastCall'.type IN
        IF active(t) >= limit(t)
        THEN /\ lastCall'.ret = FALSE
             /\ streamingCount' = streamingCount
             /\ nonStreamingCount' = nonStreamingCount
        ELSE /\ lastCall'.ret = TRUE
             /\ IF t = "streaming"
                THEN /\ streamingCount' = streamingCount + 1
                     /\ nonStreamingCount' = nonStreamingCount
                ELSE /\ nonStreamingCount' = nonStreamingCount + 1
                     /\ streamingCount' = streamingCount

C3_AcquireNeverBlocks ==
    /\ [](\A t \in RequestType :
             ENABLED (\E ret \in BOOLEAN :
                         acquireSlot(t, ret) /\ UNCHANGED <<config, lastCall, toolVars, reqVars>>))
    /\ [][C3_AcquireStep]_vars

\* An acquire refused at a full pool of positive capacity.
C3_Witness ==
    /\ lastCall.fn = "acquireSlot"
    /\ lastCall.ret = FALSE
    /\ limit(lastCall.type) > 0
    /\ lastCall.before = limit(lastCall.type)
    /\ active(lastCall.type) = limit(lastCall.type)

\* C4: with the maxima fixed, after any sequence of acquireSlot and
\* releaseSlot calls on either pool, releases with no matching acquire
\* included, each pool's active count c satisfies 0 <= c <= max.
C4_CountWithinBounds ==
    \A t \in RequestType : 0 <= active(t) /\ active(t) <= limit(t)

\* A release on an empty pool: the count stays at zero.
C4_Witness ==
    /\ lastCall.fn = "releaseSlot"
    /\ lastCall.before = 0
    /\ active(lastCall.type) = 0
    /\ limit(lastCall.type) > 0

\* C15: the two pools are independent. An acquire or release on one pool
\* leaves the other pool's count and both maxima unchanged, and an acquire on
\* a pool with a free slot succeeds whether or not the other pool is full.
C15_OtherPoolUntouched ==
    lastCall'.fn \in {"acquireSlot", "releaseSlot"} =>
        LET t == lastCall'.type
            o == CHOOSE x \in RequestType : x # t
        IN /\ (IF o = "streaming" THEN streamingCount' = streamingCount
                                  ELSE nonStreamingCount' = nonStreamingCount)
           /\ config' = config
           /\ (lastCall'.fn = "acquireSlot" /\ active(t) < limit(t))
                 => lastCall'.ret

C15_PoolsAreIndependent == [][C15_OtherPoolUntouched]_vars

\* An acquire succeeded on one pool while the other one was full.
C15_Witness ==
    /\ lastCall.fn = "acquireSlot" /\ lastCall.ret
    /\ \E o \in RequestType :
          /\ o # lastCall.type
          /\ limit(o) > 0 /\ active(o) = limit(o)

\* ------------------------------------------------ claims under SpecCalls
\* The calls made on one pool, in order.
callsOn(t) == LET on(c) == c.type = t IN SelectSeq(history, on)

\* The number of acquireSlot calls a sequence of calls starts with.
leadingAcquires(h) ==
    CHOOSE k \in 0..Len(h) :
        /\ \A i \in 1..k : h[i].fn = "acquireSlot"
        /\ k < Len(h) => h[k + 1].fn # "acquireSlot"

\* C13: for each pool with maximum N >= 0, starting from the empty pool, the
\* first N acquires succeed and every further one fails; after the pool was
\* filled that way, one release lets exactly one further acquire succeed (none
\* when N = 0) and the acquire after that fails again.
C13_CapacityIsExact ==
    \A t \in RequestType :
        LET h == callsOn(t)
            N == limit(t)
            m == leadingAcquires(h)
        IN /\ \A i \in 1..m : h[i].ret = (i <= N)
           /\ (m >= N + 1 /\ Len(h) >= m + 2 /\ h[m + 2].fn = "acquireSlot")
                 => /\ h[m + 2].ret = (N >= 1)
                    /\ (Len(h) >= m + 3 /\ h[m + 3].fn = "acquireSlot")
                          => ~h[m + 3].ret

\* The whole scenario on a pool of the largest maximum: N successes, a
\* refusal, a release, one success, a refusal.
C13_Witness ==
    \E t \in RequestType :
        LET h == callsOn(t) IN
        /\ limit(t) = MaxLimit
        /\ Len(h) = MaxLimit + 4
        /\ leadingAcquires(h) = MaxLimit + 1
        /\ ~h[MaxLimit + 1].ret
        /\ h[MaxLimit + 2].fn = "releaseSlot"
        /\ h[MaxLimit + 3].fn = "acquireSlot" /\ h[MaxLimit + 3].ret
        /\ h[MaxLimit + 4].fn = "acquireSlot" /\ ~h[MaxLimit + 4].ret

\* ----------------------------------------------------- claims under Spec
Admitted(r) == pc[r] \in {"admitted", "running", "responded", "thrown"}

\* The requests of a pool that hold a slot: one acquire, no release yet.
Holding(t) ==
    {r \in Requests : reqType[r] = t /\ acquired[r] = 1 /\ releaseCalls[r] = 0}

\* C2: for every request admitted by withConcurrencyLimit, releaseSlot runs
\* exactly once whatever completion signals occur and in whatever order
\* ('finish', 'close', the handler throwing, or several of them): never twice,
\* once as soon as any signal has occurred, and each pool's count is the
\* number of its admitted requests not yet released.
C2_ReleasedExactlyOnce ==
    /\ \A r \in Requests :
          /\ releaseCalls[r] <= 1
          /\ (Admitted(r) /\ (events[r] # {} \/ pc[r] = "thrown"))
                => releaseCalls[r] = 1
          /\ releaseCalls[r] = 1 => acquired[r] = 1
    /\ \A t \in RequestType : active(t) = Cardinality(Holding(t))

\* All three signals occurred for one request.
C2_Witness ==
    \E r \in Requests :
        /\ pc[r] = "thrown"
        /\ events[r] = {"finish", "close"}
        /\ releaseCalls[r] = 1

\* C5: every admitted request eventually has its slot released, given that
\* its response eventually emits 'finish' or 'close' or its handler throws;
\* the release gives the pool back the one slot the request held.
C5_ReleaseStep ==
    \A r \in Requests :
        (~released[r] /\ released'[r]) =>
            IF reqType[r] = "streaming"
            THEN streamingCount' = streamingCount - 1
            ELSE nonStreamingCount' = nonStreamingCount - 1

C5_EverySlotEventuallyReleased ==
    /\ \A r \in Requests : Admitted(r) ~> released[r]
    /\ [][C5_ReleaseStep]_vars

\* A client disconnect (close without finish) while the subprocess runs has
\* released the slot and emptied the pool.
C5_Witness ==
    \E r \in Requests :
        /\ pc[r] = "running"
        /\ events[r] = {"close"}
        /\ released[r]
        /\ active(reqType[r]) = 0

InFlight(t) ==
    {r \in Requests : /\ reqType[r] = t /\ Admitted(r)
                      /\ events[r] = {} /\ pc[r] # "thrown"}

\* A completion signal ('finish', 'close' or the handler throwing) of r.
Signal(r) ==
    \/ events'[r] # events[r]
    \/ pc[r] # "thrown" /\ pc'[r] = "thrown"

\* C14: release is idempotent per request: a further completion signal of a
\* request already released, other requests holding slots or not, leaves
\* both counts unchanged, and no pool ever has more requests in flight than
\* its maximum.
C14_SecondSignalStep ==
    \A r \in Requests :
        (released[r] /\ Signal(r)) =>
            UNCHANGED <<streamingCount, nonStreamingCount>>

C14_SecondReleaseIsNoOp ==
    /\ [](\A t \in RequestType : Cardinality(InFlight(t)) <= limit(t))
    /\ [][C14_SecondSignalStep]_vars

\* One request has had both 'finish' and 'close' while another one of the
\* same pool, admitted after the first release, still holds the only slot.
C14_Witness ==
    \E r1, r2 \in Requests :
        /\ r1 # r2 /\ reqType[r1] = reqType[r2]
        /\ Admitted(r1) /\ events[r1] = {"finish", "close"}
        /\ r2 \in InFlight(reqType[r2])
        /\ active(reqType[r2]) = 1

\* The answer of the wrapper to a request it refuses.
Refused(r) ==
    /\ status[r] = 429
    /\ limitReply[r].retryAfter = "5"
    /\ limitReply[r].code = "CONCURRENCY_LIMIT_ERROR"

\* C16: with the selected pool at capacity, withConcurrencyLimit answers 429
\* with the header Retry-After: 5 and the code CONCURRENCY_LIMIT_ERROR, never
\* invokes the wrapped handler, registers no release callback and leaves the
\* pool's count unchanged, also when that response finishes and closes.
C16_RefusedStep ==
    \A r \in Requests :
        /\ (pc[r] = "idle" /\ pc'[r] # "idle"
                /\ active(reqType'[r]) >= limit(reqType'[r]))
             => (pc'[r] = "rejected"
                   /\ UNCHANGED <<streamingCount, nonStreamingCount>>)
        /\ pc[r] = "rejected"
             => (pc'[r] = "rejected"
                   /\ (events'[r] # events[r]
                         => UNCHANGED <<streamingCount, nonStreamingCount>>))

C16_AtCapacityAnswers429 ==
    /\ [](\A r \in Requests :
             pc[r] = "rejected" =>
                 /\ Refused(r)
                 /\ ~spawned[r]
                 /\ listeners[r] = {}
                 /\ acquired[r] = 0 /\ releaseCalls[r] = 0 /\ ~released[r])
    /\ [][C16_RefusedStep]_vars

\* A refused request whose 429 response has finished and closed while the
\* request that fills the pool still holds its slot.
C16_Witness ==
    \E r1, r2 \in Requests :
        /\ pc[r1] = "rejected" /\ Refused(r1)
        /\ events[r1] = {"finish", "close"}
        /\ reqType[r2] = reqType[r1] /\ r2 \in InFlight(reqType[r2])
        /\ active(reqType[r1]) = 1 /\ limit(reqType[r1]) = 1

\* ------------------------------------------------- claims under SpecSSE
\* What the parser enqueues when the whole body arrives as one chunk.
oneChunk(bytes) ==
    LET t == transform(<<>>, <<>>, bytes) IN t.enqueued \o flush(t.buffer)

\* C17: the records the SSE parser emits do not depend on how the body is cut
\* into chunks: any partition of the same bytes, cuts inside the blank-line
\* delimiter and inside a multi-byte character included, yields the records
\* of the uncut body, in the same order.
C17_ChunkingInvariant ==
    sseDone => enqueued = oneChunk(stream)

\* A terminated record and an unterminated one, from a body cut both between
\* the two line ends of the delimiter and between the two bytes of a character.
C17_Witness ==
    /\ sseDone
    /\ cutKinds = {"delimiter", "character"}
    /\ enqueued = <<[event |-> <<"a">>, data |-> <<"1">>],
                    [event |-> <<"b">>, data |-> <<"U+00E9">>]>>

\* The text of the whole body.
bodyText == decode(stream).text

\* The blank-line separated parts of the body, the unterminated last one
\* included.
bodyParts == split(bodyText, <<LF, LF>>)

\* C18: at the end of the body the parser flushes: an unterminated final
\* record with an event line and a data line is emitted exactly once, after
\* all earlier records; every part of the body with both lines is emitted
\* once and none twice.
C18_FinalRecordFlushedOnce ==
    sseDone =>
        /\ enqueued = enqueueAll(bodyParts)
        /\ enqueueOf(pop(bodyParts)) # <<>>
              => /\ Len(enqueued) >= 1
                 /\ <<enqueued[Len(enqueued)]>> = enqueueOf(pop(bodyParts))

\* A terminated record followed by an unterminated one that flush emitted.
C18_Witness ==
    /\ sseDone
    /\ Len(bodyParts) = 2
    /\ enqueueOf(bodyParts[1]) # <<>>
    /\ ~blank(buffer) /\ buffer = bodyParts[2]
    /\ Len(enqueued) = 2
    /\ enqueued[2] = [event |-> <<"a">>, data |-> <<"1">>]

\* ------------------------------------------------ claims under SpecText
\* The event is of the given kinds and its data parses.
wellFormed(sseEvent, kinds) ==
    sseEvent.event \in kinds /\ JSONparse(sseEvent.data).ok

\* The text payloads of the well-formed 'text' events of a sequence, in order.
textPayloads(evs) ==
    LET isText(e) == wellFormed(e, {"text"})
        texts == SelectSeq(evs, isText)
    IN [i \in 1..Len(texts) |-> JSONparse(texts[i].data).value.text]

\* C19: the chunks on textStream are exactly the text payloads of the
\* well-formed 'text' events received, one chunk per event, in arrival order:
\* none reordered, merged, duplicated or dropped.
C19_ChunksAreTextPayloads ==
    textChunks = textPayloads(received)

\* Two deltas with a malformed text event between them, then the end of the body.
C19_Witness ==
    /\ ended
    /\ Len(received) = 3
    /\ received[2] = [event |-> "text", data |-> MalformedData]
    /\ textChunks = << <<"a">>, <<"b", "c">> >>
    /\ textPromise.state = "resolved" /\ textPromise.value = <<"a", "b", "c">>

\* The positions of the well-formed 'session' and 'result' events received.
idPositions ==
    {i \in 1..Len(received) : wellFormed(received[i], {"session", "result"})}

\* C20: the sessionId promise resolves at the earlier of the first 'session'
\* and the first 'result' event: it is not resolved before one of them has
\* been processed, and once the first of them has been processed it is
\* resolved with that event's session id, whatever comes later.
C20_SessionIdFromFirstOfSessionOrResult ==
    IF idPositions = {}
    THEN sessionIdPromise.state # "resolved"
    ELSE LET first == CHOOSE i \in idPositions : \A j \in idPositions : i <= j
         IN /\ sessionIdPromise.state = "resolved"
            /\ sessionIdPromise.value = JSONparse(received[first].data).value.sessionId

\* The result event came before the session event and gave the id.
C20_Witness ==
    /\ Len(received) = 3
    /\ received[1].event = "text"
    /\ received[2] = [event |-> "result", data |-> ResultData]
    /\ received[3] = [event |-> "session", data |-> SessionData]
    /\ sessionIdPromise.state = "resolved" /\ sessionIdPromise.value = "s2"

\* The positions of the well-formed events of the given kinds received.
positionsOf(kinds) ==
    {i \in 1..Len(received) : wellFormed(received[i], kinds)}

\* The event a step has handed to the transform.
processed == received'[Len(received')]

\* C21: the usage promise is resolved only by a 'result' event: never before
\* one has been processed, with the usage of the first one, and no step that
\* processes another event or ends the body resolves it.
C21_UsageStep ==
    (usagePromise.state # "resolved" /\ usagePromise'.state = "resolved")
        => (received' # received /\ wellFormed(processed, {"result"}))

C21_UsageOnlyFromResult ==
    /\ [](usagePromise.state = "resolved" =>
             /\ positionsOf({"result"}) # {}
             /\ usagePromise.value = "u1")
    /\ [][C21_UsageStep]_vars

\* Session, text and done came first and left usage pending; the result
\* event resolved it.
C21_Witness ==
    /\ Len(received) = 4
    /\ received[1].event = "session" /\ received[2].event = "text"
    /\ received[3].event = "done"
    /\ received[4] = [event |-> "result", data |-> ResultData]
    /\ usagePromise.state = "resolved" /\ usagePromise.value = "u1"

\* C22 as stated: when the body ends without a done or result marker the
\* accumulated-text promise is rejected, and it is resolved only at the end of
\* a body that carried done.
C22_TextRejectedWithoutMarker ==
    /\ (ended /\ positionsOf({"done", "result"}) = {})
          => textPromise.state = "rejected"
    /\ textPromise.state = "resolved" => positionsOf({"done"}) # {}

\* The text of the events up to position n.
textUpTo(n) == Flatten(textPayloads(SubSeq(received, 1, n)))

\* C22 amended: the text promise is resolved by the first done event, with
\* the text accumulated up to it, or else by the end of the body, with all
\* the text accumulated, a done or result marker having arrived or not; it
\* is pending before both and rejected only when the stream errors.
C22_TextResolvedAtDoneOrEnd ==
    LET dones == positionsOf({"done"}) IN
    /\ textPromise.state = "resolved" <=> (dones # {} \/ ended)
    /\ textPromise.state = "rejected" => streamErrored
    /\ textPromise.state = "resolved" =>
          textPromise.value =
              IF dones # {}
              THEN textUpTo(CHOOSE i \in dones : \A j \in dones : i <= j)
              ELSE textUpTo(Len(received))

\* The body ended after a session and a text event, with no done and no
\* result: the text promise is resolved and the usage promise rejected.
C22_Witness ==
    /\ ended
    /\ Len(received) = 2
    /\ positionsOf({"done", "result"}) = {}
    /\ textPromise.state = "resolved" /\ textPromise.value = <<"a">>
    /\ usagePromise.state = "rejected" /\ usagePromise.code = "NO_USAGE"

\* The stream has terminated, in one of the ways it can.
Terminated == ended \/ streamErrored \/ bodyFailed

AllSettled ==
    /\ sessionIdPromise.state # "pending"
    /\ usagePromise.state # "pending"
    /\ textPromise.state # "pending"

\* C23: on every way the stream can terminate (done then end, error event,
\* unparsable critical event, end with no terminal marker, the response body
\* failing mid-stream) each of the three promises is eventually settled.
C23_EveryPromiseEventuallySettled == Terminated ~> AllSettled

\* The step that processes a well-formed error event.
ErrorStep ==
    received' # received /\ wellFormed(processed, {"error"})

\* The code of the error an 'error' event carries.
errorCodeOf(sseEvent) ==
    IF sseEvent.data = ErrorDataCoded THEN "CLI_EXIT_ERROR" ELSE "STREAM_ERROR"

\* The promise after an error with the given code: rejected if it was
\* pending, as it was otherwise.
failedBy(promise, code) ==
    IF promise.state = "pending"
    THEN [state |-> "rejected", value |-> promise.value, code |-> code]
    ELSE promise

\* C24: an 'error' event terminates the stream at once and fails every
\* promise not already settled: usage, text and sessionId are rejected with
\* the event's error unless settled, textStream is errored, no later event is
\* processed, and a resolved promise keeps its value.
C24_ErrorStepEffect ==
    /\ ErrorStep =>
          /\ usagePromise' = failedBy(usagePromise, errorCodeOf(processed))
          /\ textPromise' = failedBy(textPromise, errorCodeOf(processed))
          /\ sessionIdPromise' = failedBy(sessionIdPromise, errorCodeOf(processed))
          /\ streamErrored'
    /\ streamErrored =>
          UNCHANGED <<received, ended, sessionIdPromise, usagePromise,
                      textPromise, textChunks>>

C24_ErrorTerminatesAndFails ==
    /\ [](positionsOf({"error"}) # {} =>
             (streamErrored /\ positionsOf({"error"}) = {Len(received)}))
    /\ [][C24_ErrorStepEffect]_vars

\* The error came after session and result: those two promises keep their
\* values, the text promise is rejected with the event's code.
C24_Witness ==
    /\ Len(received) = 4
    /\ received[4] = [event |-> "error", data |-> ErrorDataCoded]
    /\ streamErrored
    /\ sessionIdPromise.state = "resolved" /\ sessionIdPromise.value = "s1"
    /\ usagePromise.state = "resolved" /\ usagePromise.value = "u1"
    /\ textPromise.state = "rejected" /\ textPromise.code = "CLI_EXIT_ERROR"
    /\ textChunks = << <<"a">> >>

\* A session record, two text deltas, a result record, then the end.
Scenario25 ==
    <<[event |-> "session", data |-> SessionData],
      [event |-> "text", data |-> TextDataA],
      [event |-> "text", data |-> TextDataBC],
      [event |-> "result", data |-> ResultData]>>

\* C25: for a stream that carries a session record, two text deltas and a
\* result record and then closes, the deltas are observed in that order, the
\* sessionId promise resolves with the session record's id, the usage
\* promise with the result's usage, and the text promise with the two deltas
\* concatenated in order.
C25_SessionTwoDeltasResult ==
    (ended /\ received = Scenario25) =>
        /\ textChunks = << <<"a">>, <<"b", "c">> >>
        /\ sessionIdPromise = [state |-> "resolved", value |-> "s1", code |-> ""]
        /\ usagePromise = [state |-> "resolved", value |-> "u1", code |-> ""]
        /\ textPromise =
              [state |-> "resolved", value |-> <<"a", "b", "c">>, code |-> ""]

C25_Witness ==
    /\ ended /\ received = Scenario25
    /\ ~streamErrored /\ ~bodyFailed
    /\ AllSettled

\* ------------------------------------------------------ synchronous path
\* routes/generate.ts and cli.ts: the subprocess is spawned, runs to its
\* end or to the timeout, and its captured stdout is turned into one reply.
MaxTokens == 3

TokenCounts == 0..MaxTokens

\* stdout that is the one JSON document the CLI prints on completion
CliResultJson(result, tokensIn, tokensOut, sid) ==
    [parses |-> TRUE,
     value |-> [result |-> result, total_tokens_in |-> tokensIn,
                total_tokens_out |-> tokensOut, session_id |-> sid]]

\* stdout that JSON.parse rejects
UnparsableStdout ==
    [parses |-> FALSE,
     value |-> [result |-> <<>>, total_tokens_in |-> 0,
                total_tokens_out |-> 0, session_id |-> ""]]

ResultTexts == {<<"H", "i">>, <<>>}

Stdouts ==
    {UnparsableStdout}
        \cup {CliResultJson(t, i, o, "s1") :
                 t \in ResultTexts, i \in TokenCounts, o \in TokenCounts}

\* A subprocess killed at the timeout never ends with exit code 0.
CliOutcomes ==
    {oc \in [timedOut : BOOLEAN, exitCode : {0, 1}, stdout : Stdouts] :
        oc.timedOut => oc.exitCode # 0}

CliFailure(code, message) ==
    [ok |-> FALSE, code |-> code, message |-> message,
     value |-> UnparsableStdout.value]

\* Mutant: the exit code is looked at only when stdout does not parse.
executeCliTrustsStdout(oc) ==
    IF oc.timedOut THEN CliFailure("TIMEOUT_ERROR", "timed out")
    ELSE IF oc.stdout.parses
    THEN [ok |-> TRUE, code |-> "", message |-> "", value |-> oc.stdout.value]
    ELSE IF oc.exitCode # 0 THEN CliFailure("CLI_EXIT_ERROR", "exited non-zero")
    ELSE CliFailure("PARSE_ERROR", "unparsable output")

\* One invocation: an ExecutionResult or a classified failure.
executeCli(oc) ==
    IF oc.timedOut THEN CliFailure("TIMEOUT_ERROR", "timed out")
    ELSE IF oc.exitCode # 0 THEN CliFailure("CLI_EXIT_ERROR", "exited non-zero")
    ELSE IF ~oc.stdout.parses THEN CliFailure("PARSE_ERROR", "unparsable output")
    ELSE [ok |-> TRUE, code |-> "", message |-> "", value |-> oc.stdout.value]

\* Mutant: totalTokens repeats the input count.
usageOfInputOnly(value) ==
    [inputTokens |-> value.total_tokens_in,
     outputTokens |-> value.total_tokens_out,
     totalTokens |-> value.total_tokens_in]

usageOf(value) ==
    [inputTokens |-> value.total_tokens_in,
     outputTokens |-> value.total_tokens_out,
     totalTokens |-> value.total_tokens_in + value.total_tokens_out]

errorReply(code, message) ==
    [status |-> 500, body |-> [error |-> message, code |-> code]]

generateText(oc) ==
    LET r == executeCli(oc) IN
    IF r.ok
    THEN [status |-> 200,
          body |-> [text |-> r.value.result,
                    usage |-> usageOf(r.value),
                    sessionId |-> r.value.session_id]]
    ELSE errorReply(r.code, r.message)

SyncInit ==
    /\ cliOutcome \in CliOutcomes
    /\ syncReply = NoSyncReply
    /\ posted = NoPosted
    /\ EnvIdle
    /\ ToolsIdle
    /\ PoolIdle
    /\ ReqIdle
    /\ history = <<>>
    /\ SdkIdle

\* POST /generate-text answered once the subprocess has ended.
GenerateText ==
    /\ syncReply.status = 0
    /\ syncReply' = generateText(cliOutcome)
    /\ posted' = [endpoint |-> "/generate-text"]
    /\ UNCHANGED <<cliOutcome, toolVars, poolVars, lastCall, reqVars, history, sdkVars, envVars>>

SyncNext == GenerateText

SpecSync == SyncInit /\ [][SyncNext]_vars

\* C26: on the synchronous path a subprocess that exits 0 with the document
\* {result, total_tokens_in, total_tokens_out, session_id} is answered with
\* status 200, text = result, sessionId = session_id, inputTokens =
\* total_tokens_in, outputTokens = total_tokens_out and totalTokens their
\* sum, for every pair of non-negative counts.
CompletedCleanly ==
    ~cliOutcome.timedOut /\ cliOutcome.exitCode = 0 /\ cliOutcome.stdout.parses

C26_SuccessMapping ==
    (syncReply.status # 0 /\ CompletedCleanly) =>
        /\ syncReply.status = 200
        /\ syncReply.body.text = cliOutcome.stdout.value.result
        /\ syncReply.body.sessionId = cliOutcome.stdout.value.session_id
        /\ syncReply.body.usage.inputTokens = cliOutcome.stdout.value.total_tokens_in
        /\ syncReply.body.usage.outputTokens = cliOutcome.stdout.value.total_tokens_out
        /\ syncReply.body.usage.totalTokens =
              syncReply.body.usage.inputTokens + syncReply.body.usage.outputTokens

C26_Witness ==
    /\ syncReply.status = 200
    /\ cliOutcome.stdout.value.total_tokens_in = 2
    /\ cliOutcome.stdout.value.total_tokens_out = 3
    /\ syncReply.body.usage.totalTokens = 5
    /\ syncReply.body.text = <<"H", "i">>

\* C27: on the synchronous path a subprocess that exits non-zero, one whose
\* output does not parse and one that exceeds the timeout are each answered
\* with a failure carrying the code of its class, the three codes pairwise
\* distinct (non-zero exit: status 500 and CLI_EXIT_ERROR), and none of them
\* with a success.
failureClass ==
    IF cliOutcome.timedOut THEN "timeout"
    ELSE IF cliOutcome.exitCode # 0 THEN "nonzero-exit"
    ELSE IF ~cliOutcome.stdout.parses THEN "output-parse"
    ELSE "none"

codeOfClass ==
    [c \in {"timeout", "nonzero-exit", "output-parse"} |->
        CASE c = "timeout" -> "TIMEOUT_ERROR"
          [] c = "nonzero-exit" -> "CLI_EXIT_ERROR"
          [] c = "output-parse" -> "PARSE_ERROR"]

C27_DistinctFailureClasses ==
    /\ \A c, d \in DOMAIN codeOfClass : c # d => codeOfClass[c] # codeOfClass[d]
    /\ (syncReply.status # 0 /\ failureClass # "none") =>
          /\ syncReply.status # 200
          /\ syncReply.body.code = codeOfClass[failureClass]
          /\ failureClass = "nonzero-exit" => syncReply.status = 500

C27_Witness ==
    /\ syncReply.status = 500
    /\ syncReply.body.code = "CLI_EXIT_ERROR"
    /\ cliOutcome.exitCode = 1
    /\ cliOutcome.stdout.parses

\* ------------------------------------------- structured-object extraction
\* extractJson of routes/generate.ts, over completion texts written as
\* sequences of tokens: brackets, the quote, a digit, a letter and the two
\* fence lines.
MaxParts == 4

Quote == "\""

\* The fence lines of a Markdown code block labelled json; the three
\* backquotes of each are written ::: here.
FenceOpen == ":::json\n"

FenceClose == "\n:::"

\* The parts completion texts are put together from: single tokens, a
\* fenced block holding a JSON value, a fenced block holding prose, and a
\* string literal holding a bracket.
TextParts ==
    { <<"{">>, <<"}">>, <<"[">>, <<"]">>, <<Quote>>, <<"1">>, <<"w">>,
      <<FenceOpen, "1", FenceClose>>,
      <<FenceOpen, "w", FenceClose>>,
      <<Quote, "]", Quote>> }

CompletionTexts ==
    {Flatten(ps) : ps \in UNION {[1..n -> TextParts] : n \in 0..MaxParts}}

NoJson == [ok |-> FALSE, value |-> [type |-> "none", items |-> <<>>]]

JsonOk(type, items) == [ok |-> TRUE, value |-> [type |-> type, items |-> items]]

\* JSON.parse on a text of these tokens: a run of digits is a number, a
\* quoted run without a quote or a line end is a string, [] and [value] are
\* arrays, {} is an object; no other text of these tokens is JSON (there is
\* no comma and no colon among them).
RECURSIVE JSONparseText(_)
JSONparseText(t) ==
    LET n == Len(t)
        inner == SubSeq(t, 2, n - 1)
    IN
    IF n = 0 THEN NoJson
    ELSE IF \A i \in 1..n : t[i] = "1" THEN JsonOk("number", t)
    ELSE IF n = 1 THEN NoJson
    ELSE IF t[1] = Quote /\ t[n] = Quote
    THEN IF \A i \in 1..Len(inner) : inner[i] \notin {Quote, FenceOpen, FenceClose}
         THEN JsonOk("string", inner)
         ELSE NoJson
    ELSE IF t[1] = "[" /\ t[n] = "]"
    THEN IF n = 2 THEN JsonOk("array", <<>>)
         ELSE LET e == JSONparseText(inner) IN
              IF e.ok THEN JsonOk("array", <<e.value>>) ELSE NoJson
    ELSE IF t = <<"{", "}">> THEN JsonOk("object", <<>>)
    ELSE NoJson

\* (b) the fenced blocks labelled json, each from its opening line to the
\* next closing line, in order; the first whose content parses.
fenceCloseAfter(t, i) ==
    LET js == {j \in (i + 1)..Len(t) : t[j] = FenceClose} IN
    IF js = {} THEN 0 ELSE CHOOSE j \in js : \A k \in js : j <= k

parseFenced(t) ==
    LET opens == {i \in 1..Len(t) :
                     /\ t[i] = FenceOpen
                     /\ fenceCloseAfter(t, i) # 0
                     /\ JSONparseText(SubSeq(t, i + 1, fenceCloseAfter(t, i) - 1)).ok}
    IN
    IF opens = {} THEN NoJson
    ELSE LET i == CHOOSE o \in opens : \A k \in opens : o <= k IN
         JSONparseText(SubSeq(t, i + 1, fenceCloseAfter(t, i) - 1))

\* (c) brace/bracket counting from position i at the given depth: the
\* position where the depth returns to 0, or 0 when it never does. Tokens
\* between two quotes are not counted.
RECURSIVE spanEnd(_, _, _, _)
spanEnd(t, i, depth, inString) ==
    IF i > Len(t) THEN 0
    ELSE IF inString THEN spanEnd(t, i + 1, depth, t[i] # Quote)
    ELSE IF t[i] = Quote THEN spanEnd(t, i + 1, depth, TRUE)
    ELSE IF t[i] \in {"{", "["} THEN spanEnd(t, i + 1, depth + 1, FALSE)
    ELSE IF t[i] \in {"}", "]"}
    THEN IF depth = 1 THEN i ELSE spanEnd(t, i + 1, depth - 1, FALSE)
    ELSE spanEnd(t, i + 1, depth, FALSE)

firstOpener(t) ==
    LET os == {i \in 1..Len(t) : t[i] \in {"{", "["}} IN
    IF os = {} THEN 0 ELSE CHOOSE i \in os : \A k \in os : i <= k

parseSpan(t) ==
    LET i == firstOpener(t)
        j == IF i = 0 THEN 0 ELSE spanEnd(t, i, 0, FALSE)
    IN
    IF j = 0 THEN NoJson ELSE JSONparseText(SubSeq(t, i, j))

\* Mutant: the balanced span is tried before the fenced block.
extractJsonSpanFirst(t) ==
    LET whole == JSONparseText(t)
        fenced == parseFenced(t)
        span == parseSpan(t)
    IN
    IF whole.ok THEN whole
    ELSE IF span.ok THEN span
    ELSE IF fenced.ok THEN fenced
    ELSE NoJson

extractJson(t) ==
    LET whole == JSONparseText(t)
        fenced == parseFenced(t)
        span == parseSpan(t)
    IN
    IF whole.ok THEN whole
    ELSE IF fenced.ok THEN fenced
    ELSE IF span.ok THEN span
    ELSE NoJson

\* POST /generate-object: the subprocess's reply, then the extraction; an
\* exhausted extraction is answered 500 INTERNAL_ERROR "Failed to parse
\* JSON". Whether that error body repeats the text is not fixed by what is
\* known of the handler, hence rawTextCarried.
generateObject(oc, rawTextCarried) ==
    LET r == executeCli(oc)
        e == extractJson(r.value.result)
    IN
    IF ~r.ok THEN errorReply(r.code, r.message)
    ELSE IF e.ok
    THEN [status |-> 200,
          body |-> [object |-> e.value,
                    rawText |-> Some(r.value.result),
                    usage |-> usageOf(r.value),
                    sessionId |-> r.value.session_id,
                    error |-> "", code |-> ""]]
    ELSE [status |-> 500,
          body |-> [object |-> NoJson.value,
                    rawText |-> IF rawTextCarried THEN Some(r.value.result)
                                ELSE Undefined,
                    usage |-> usageOf(UnparsableStdout.value),
                    sessionId |-> "",
                    error |-> "Failed to parse JSON",
                    code |-> "INTERNAL_ERROR"]]

ExtractInit ==
    /\ cliOutcome \in
          {[timedOut |-> FALSE, exitCode |-> 0,
            stdout |-> CliResultJson(t, 5, 3, "s1")] : t \in CompletionTexts}
    /\ syncReply = NoSyncReply
    /\ posted = NoPosted
    /\ EnvIdle
    /\ ToolsIdle
    /\ PoolIdle
    /\ ReqIdle
    /\ history = <<>>
    /\ SdkIdle

\* POST /generate-object answered once the subprocess has ended.
GenerateObject ==
    /\ syncReply.status = 0
    /\ \E rawTextCarried \in BOOLEAN :
          syncReply' = generateObject(cliOutcome, rawTextCarried)
    /\ posted' = [endpoint |-> "/generate-object"]
    /\ UNCHANGED <<cliOutcome, toolVars, poolVars, lastCall, reqVars, history, sdkVars, envVars>>

ExtractNext == GenerateObject

SpecExtract == ExtractInit /\ [][ExtractNext]_vars

\* C28: extraction tries (a) the whole text, then (b) a fenced json block,
\* then (c) the first balanced {...} or [...] span, and the first that
\* parses gives the object returned: the value of a later strategy is
\* returned only when every earlier one failed, and an object as well as an
\* array is returned as it is.
completion == cliOutcome.stdout.value.result

ObjectAnswered == syncReply.status # 0 /\ posted.endpoint = "/generate-object"

C28_FirstStrategyThatParsesWins ==
    ObjectAnswered =>
        LET whole == JSONparseText(completion)
            fenced == parseFenced(completion)
            span == parseSpan(completion)
        IN
        /\ whole.ok => syncReply.status = 200 /\ syncReply.body.object = whole.value
        /\ (~whole.ok /\ fenced.ok) =>
              syncReply.status = 200 /\ syncReply.body.object = fenced.value
        /\ (~whole.ok /\ ~fenced.ok /\ span.ok) =>
              syncReply.status = 200 /\ syncReply.body.object = span.value
        /\ syncReply.status = 200 => (whole.ok \/ fenced.ok \/ span.ok)

\* a fenced block wins over a balanced span that would give another value
C28_Witness ==
    /\ ObjectAnswered
    /\ completion = <<"w", "{", "}", FenceOpen, "1", FenceClose>>
    /\ syncReply.status = 200
    /\ syncReply.body.object = [type |-> "number", items |-> <<"1">>]

\* C29: when the completion text contains no valid JSON span, the
\* extraction fails with the parse-error classification and the failure
\* carries the original text; no object is returned and no success reported.
noValidJsonSpan(t) ==
    \A i \in 1..Len(t) : \A j \in i..Len(t) : ~JSONparseText(SubSeq(t, i, j)).ok

C29_ParseErrorCarriesRawText ==
    (ObjectAnswered /\ noValidJsonSpan(completion)) =>
        /\ syncReply.status # 200
        /\ syncReply.body.object = NoJson.value
        /\ syncReply.body.code = "PARSE_ERROR"
        /\ syncReply.body.rawText = Some(completion)

\* --------------------------------------------- argument lists per request
\* The argument list each of the four execution endpoints hands to the
\* subprocess, for every combination of the optional fields of the body.
\* Validated bodies: an object request carries a schema, a text request none.
ArgBodies ==
    {b \in [endpoint : Endpoints,
            prompt : {"test", "my prompt"},
            system : {Absent, "Be concise"},
            model : {Absent, "opus"},
            sessionId : {Absent, "session-456"},
            schema : {Absent, TestSchema},
            allowedTools : OptToolLists] :
        (b.schema # Absent) <=> (b.endpoint \in ObjectEndpoints)}

ArgsInit ==
    /\ posted \in ArgBodies
    /\ cliOutcome = NoOutcome
    /\ syncReply = NoSyncReply
    /\ EnvIdle
    /\ ToolsIdle
    /\ PoolIdle
    /\ ReqIdle
    /\ history = <<>>
    /\ SdkIdle

BuildArgs ==
    /\ tpc = "start"
    /\ args' = buildArgs(posted)
    /\ endpoint' = posted.endpoint
    /\ tpc' = "built"
    /\ UNCHANGED <<options, resolved, response, poolVars, lastCall, reqVars, extVars>>

ArgsNext == BuildArgs

SpecArgs == ArgsInit /\ [][ArgsNext]_vars

\* C30: for every request, whichever of system, model, sessionId,
\* allowedTools and schema it carries, the last token of the argument list
\* is the prompt (enhanced with the schema for an object request) and every
\* flag, with its values, stands before it.
FlagNames ==
    {"--print", "--verbose", "--output-format", "--include-partial-messages",
     "--system-prompt", "--model", "--resume", "--allowedTools"}

ArgsBuilt == tpc = "built" /\ posted.endpoint # ""

expectedPrompt ==
    IF posted.schema # Absent
    THEN promptWithSchema(posted.prompt, posted.schema)
    ELSE posted.prompt

flagWithValueBeforeLast(flag, value) ==
    \E i \in 1..(Len(args) - 2) : args[i] = flag /\ args[i + 1] = value

toolsBeforeLast(list) ==
    \E i \in 1..(Len(args) - 1 - Len(list)) :
        /\ args[i] = "--allowedTools"
        /\ SubSeq(args, i + 1, i + Len(list)) = list

C30_PromptIsLastToken ==
    ArgsBuilt =>
        /\ args # <<>>
        /\ args[Len(args)] = expectedPrompt
        /\ \A i \in 1..Len(args) : args[i] \in FlagNames => i < Len(args)
        /\ posted.model # Absent => flagWithValueBeforeLast("--model", posted.model)
        /\ posted.sessionId # Absent =>
              flagWithValueBeforeLast("--resume", posted.sessionId)
        /\ (posted.system # Absent /\ posted.schema = Absent) =>
              flagWithValueBeforeLast("--system-prompt", posted.system)
        /\ posted.schema # Absent =>
              \E i \in 1..(Len(args) - 2) : args[i] = "--system-prompt"
        /\ (posted.allowedTools.defined /\ posted.allowedTools.list # <<>>) =>
              toolsBeforeLast(posted.allowedTools.list)

C30_Witness ==
    /\ ArgsBuilt
    /\ posted.endpoint = "/stream-object"
    /\ posted.system # Absent
    /\ posted.model # Absent
    /\ posted.sessionId # Absent
    /\ posted.allowedTools = Some(<<"Read", "Glob">>)
    /\ args[Len(args)] = promptWithSchema("my prompt", TestSchema)
    /\ args[Len(args) - 1] = "Glob"

\* C31: each optional field contributes tokens exactly when it is present:
\* system the adjacent pair --system-prompt <text>, model --model <alias>,
\* sessionId --resume <id>, the value right after its flag; an absent field
\* contributes neither flag nor value.
occurrences(flag) == {i \in 1..Len(args) : args[i] = flag}

\* the flag stands once, followed by the value, when the value is present;
\* it does not stand at all when the value is absent
pairIffPresent(flag, value) ==
    IF value # Absent
    THEN \E i \in 1..(Len(args) - 1) :
            occurrences(flag) = {i} /\ args[i + 1] = value
    ELSE occurrences(flag) = {}

toolTokens ==
    IF posted.allowedTools.defined /\ posted.allowedTools.list # <<>>
    THEN 1 + Len(posted.allowedTools.list)
    ELSE 0

presentFields(fields) == Cardinality({f \in fields : posted[f] # Absent})

EndedUnmarked == ended /\ positionsOf({"done"}) = {}

C32_EndWithoutMarker ==
    EndedUnmarked =>
        /\ textPromise.state = "resolved"
        /\ textPromise.value = textUpTo(Len(received))
        /\ positionsOf({"result"}) = {} =>
              usagePromise.state = "rejected" /\ usagePromise.code = "NO_USAGE"
        /\ positionsOf({"session", "result"}) = {} =>
              sessionIdPromise.state = "rejected"
                  /\ sessionIdPromise.code = "NO_SESSION"

\* Only two text deltas came before the end.
C32_Witness ==
    /\ EndedUnmarked
    /\ Len(received) = 2
    /\ positionsOf({"text"}) = {1, 2}
    /\ textPromise.state = "resolved" /\ Len(textPromise.value) >= 2
    /\ usagePromise.code = "NO_USAGE"
    /\ sessionIdPromise.code = "NO_SESSION"

\* -------------------------------------------------- configuration loading
\* config.ts: parseToolList on the text of an environment variable, written
\* as a sequence of tokens: brackets, commas, string literals, a number and
\* null.
MaxItems == 3

\* The JSON string literal of a tool name.
Quoted(t) == "\"" \o t \o "\""

StringTokens == {Quoted(t) : t \in Tools}

ItemTokens == StringTokens \cup {"1", "null"}

ItemLists == UNION {[1..n -> ItemTokens] : n \in 0..MaxItems}

\* JSON.stringify of an array of the items: the items with commas between.
RECURSIVE commaSeparated(_)
commaSeparated(items) ==
    IF Len(items) = 0 THEN <<>>
    ELSE IF Len(items) = 1 THEN items
    ELSE <<Head(items), ",">> \o commaSeparated(Tail(items))

\* The text written for the items in the given shape: an array, an array
\* whose closing bracket is missing, a single value, an object, a bare word.
envText(shape, items) ==
    CASE shape = "array" -> <<"[">> \o commaSeparated(items) \o <<"]">>
      [] shape = "truncated" -> <<"[">> \o commaSeparated(items)
      [] shape = "scalar" -> <<Head(items)>>
      [] shape = "object" -> <<"{}">>
      [] shape = "word" -> <<"Read">>
      [] shape = "empty" -> <<>>

Shapes(items) ==
    {"array", "truncated"}
        \cup (IF Len(items) = 1 THEN {"scalar"} ELSE {})
        \cup (IF Len(items) = 0 THEN {"object", "word", "empty"} ELSE {})

Environments ==
    {[name |-> n, value |-> [set |-> FALSE, text |-> <<>>],
      made |-> [shape |-> "unset", items |-> <<>>]] :
        n \in {"KOINE_ALLOWED_TOOLS", "KOINE_DISALLOWED_TOOLS"}}
    \cup
    UNION {{[name |-> n,
             value |-> [set |-> TRUE, text |-> envText(sh, items)],
             made |-> [shape |-> sh, items |-> items]] :
               n \in {"KOINE_ALLOWED_TOOLS", "KOINE_DISALLOWED_TOOLS"},
               sh \in Shapes(items)} : items \in ItemLists}

\* JSON.parse of such a text: [ok, isArray, items], the items of an array
\* being the tokens at its odd positions between the brackets.
JSONparseList(t) ==
    LET n == Len(t)
        inner == SubSeq(t, 2, n - 1)
        m == Len(inner)
    IN
    IF n = 1 /\ t[1] \in ItemTokens \cup {"{}"}
    THEN [ok |-> TRUE, isArray |-> FALSE, items |-> <<>>]
    ELSE IF /\ n >= 2 /\ t[1] = "[" /\ t[n] = "]"
            /\ (m = 0 \/ m % 2 = 1)
            /\ \A i \in 1..m : IF i % 2 = 1 THEN inner[i] \in ItemTokens
                               ELSE inner[i] = ","
    THEN [ok |-> TRUE, isArray |-> TRUE,
          items |-> [k \in 1..((m + 1) \div 2) |-> inner[2 * k - 1]]]
    ELSE [ok |-> FALSE, isArray |-> FALSE, items |-> <<>>]

\* The string a string literal stands for.
unquoted(token) == CHOOSE t \in Tools : Quoted(t) = token

\* parsed.filter((t): t is string => typeof t === "string")
filterStrings(items) ==
    LET isString(token) == token \in StringTokens
        kept == SelectSeq(items, isString)
    IN [i \in 1..Len(kept) |-> unquoted(kept[i])]

\* Mutant: without `if (tools.length === 0) return undefined`.
parseToolListKeepsEmpty(envVar) ==
    IF ~envVar.set \/ envVar.text = <<>> THEN Undefined
    ELSE LET parsed == JSONparseList(envVar.text) IN
         IF ~parsed.ok THEN Undefined
         ELSE IF ~parsed.isArray THEN Undefined
         ELSE Some(filterStrings(parsed.items))

parseToolList(envVar) ==
    IF ~envVar.set \/ envVar.text = <<>> THEN Undefined
    ELSE LET parsed == JSONparseList(envVar.text) IN
         IF ~parsed.ok THEN Undefined
         ELSE IF ~parsed.isArray THEN Undefined
         ELSE LET tools == filterStrings(parsed.items) IN
              IF Len(tools) = 0 THEN Undefined ELSE Some(tools)

ConfigInit ==
    /\ environment \in Environments
    /\ configured = NotConfigured
    /\ SyncIdle
    /\ ToolsIdle
    /\ PoolIdle
    /\ ReqIdle
    /\ history = <<>>
    /\ SdkIdle

\* gatewayConfig is built when the module is loaded.
LoadConfig ==
    /\ ~configured.loaded
    /\ configured' = [loaded |-> TRUE, tools |-> parseToolList(environment.value)]
    /\ UNCHANGED <<environment, toolVars, poolVars, lastCall, reqVars, history,
                   sdkVars, syncVars>>

ConfigNext == LoadConfig

SpecConfig == ConfigInit /\ [][ConfigNext]_vars

\* C33: parseToolList returns undefined or a non-empty list, the string
\* entries of the input in their order: an unset value, invalid JSON, JSON
\* that is no array and an array without string entries ("[]" included) all
\* give undefined, so a list loaded from configuration is never an explicit
\* empty list.
stringEntries(items) ==
    LET isLiteral(token) == \E t \in Tools : token = Quoted(t)
        lits == SelectSeq(items, isLiteral)
    IN [i \in 1..Len(lits) |-> CHOOSE t \in Tools : Quoted(t) = lits[i]]

C33_UndefinedOrNonEmptyStrings ==
    configured.loaded =>
        LET made == environment.made
            entries == stringEntries(made.items)
        IN
        /\ configured.tools # Some(<<>>)
        /\ configured.tools.defined => Len(configured.tools.list) > 0
        /\ IF made.shape = "array" /\ entries # <<>>
           THEN configured.tools = Some(entries)
           ELSE configured.tools = Undefined

\* a number between two names is dropped and the order of the names kept
C33_Witness ==
    /\ configured.loaded
    /\ environment.value.text =
          <<"[", Quoted("Write"), ",", "1", ",", Quoted("Read"), "]">>
    /\ configured.tools = Some(<<"Write", "Read">>)

Unreleased(t) ==
    {r \in Requests : Admitted(r) /\ reqType[r] = t /\ ~released[r]}

\* C35: when requests reach the pools only through withConcurrencyLimit, in
\* every reachable state each pool's active count is the number of admitted
\* requests of its type whose release flag is still unset.
C35_CountIsUnreleasedAdmitted ==
    \A t \in RequestType : active(t) = Cardinality(Unreleased(t))

\* One request of the pool has released its slot, a later one holds it.
C35_Witness ==
    \E r1, r2 \in Requests :
        /\ reqType[r1] = "streaming" /\ reqType[r2] = "streaming"
        /\ Admitted(r1) /\ released[r1]
        /\ Admitted(r2) /\ ~released[r2]
        /\ streamingCount = 1

\* The admitted requests of a pool whose response has neither finished nor
\* closed.
Unterminated(t) ==
    {r \in Requests : Admitted(r) /\ reqType[r] = t /\ events[r] = {}}

singlePass(base) ==
    LET keep(t) == /\ (R.defined => includes(R.list, t))
                   /\ (D.defined => ~includes(D.list, t))
    IN SelectSeq(base, keep)

referenceResult ==
    IF ~A.defined /\ ~R.defined THEN Undefined ELSE Some(singlePass(baseList))

\* Steps 1, 3 and 4 only: the resolution with the first subtraction skipped.
withoutFirstSubtraction ==
    removeDisallowed(intersectRequest(resolveStep1(A), R), D)

\* C37: for all A, D and R the four-step resolveAllowedTools returns the value
\* of the single-pass reference (unrestricted if A and R are both absent,
\* otherwise the base list, A if present else R, filtered to the elements in R
\* when R is present and not in D when D is present), and skipping the first
\* subtraction of D gives the same result.
C37_FourStepsEqualSinglePass ==
    Resolved => /\ resolved = referenceResult
                /\ resolved = withoutFirstSubtraction

\* All three lists are present, D removes a tool of A that R names, and a tool
\* of A survives both filters.
C37_Witness ==
    /\ tpc = "resolved"
    /\ A.defined /\ D.defined /\ R.defined
    /\ \E i \in 1..Len(A.list) :
          includes(D.list, A.list[i]) /\ includes(R.list, A.list[i])
    /\ resolved.defined /\ Len(resolved.list) > 0

\* ------------------------------------------- settled promises (SpecText)
\* A promise that has settled is the same promise after the step.
keepsSettled(before, after) == before.state # "pending" => after = before

C38_Step ==
    /\ keepsSettled(textPromise, textPromise')
    /\ keepsSettled(usagePromise, usagePromise')
    /\ keepsSettled(sessionIdPromise, sessionIdPromise')

C39_ResolvedTextIsAllChunks ==
    (Terminated /\ textPromise.state = "resolved")
        => textPromise.value = Flatten(textChunks)

\* ------------------------------------------ unparsable events (SpecText)
\* The step has handed an event of one of the kinds, with a payload that
\* JSON.parse rejects, to the transform.
UnparsableStep(kinds) ==
    /\ received' # received
    /\ processed.event \in kinds
    /\ ~JSONparse(processed.data).ok

\* The promise is rejected with SSE_PARSE_ERROR after the step.
parseRejected(promise) ==
    promise.state = "rejected" /\ promise.code = "SSE_PARSE_ERROR"

\* An unparsable 'text' event is dropped: no chunk, the accumulated text and
\* the promises as before, the stream not errored, the flags as before.
droppedText ==
    UnparsableStep({"text"})
        => /\ textChunks' = textChunks
           /\ accumulatedText' = accumulatedText
           /\ UNCHANGED <<textPromise, usagePromise, sessionIdPromise>>
           /\ UNCHANGED <<usageReceived, sessionIdReceived>>
           /\ ~streamErrored'

\* An unparsable critical event errors textStream and rejects usage and
\* sessionId when not yet received.
criticalFails ==
    UnparsableStep({"session", "result", "error"})
        => /\ streamErrored'
           /\ IF usageReceived THEN usagePromise' = usagePromise
              ELSE parseRejected(usagePromise')
           /\ IF sessionIdReceived THEN sessionIdPromise' = sessionIdPromise
              ELSE parseRejected(sessionIdPromise')

=============================================================================
